---- MODULE Spec2Model ----
(***************************************************************************)
(* Laser odometry engine (BasicLaserOdometry): the sweep pipeline          *)
(* (process), the Gauss-Newton loop (performOptimization), the degeneracy  *)
(* guard (checkDegeneration), the residual weights (computeCornerDistances,*)
(* computePlaneDistances) and the correspondence search                    *)
(* (findCornerCorrespondence, findPlaneCorrespondence).                    *)
(*                                                                         *)
(* Two levels of detail share the module.                                  *)
(*  - Spec: the sweep level.  A cloud is its size, its provenance and the  *)
(*    in-place edits applied to it; a float is an exact integer in fixed   *)
(*    units, or NaN, or +-infinity; the result of the linear solve and the *)
(*    eigenvalues of the Hessian are inputs of each iteration.             *)
(*  - CorrSpec / WeightSpec: the point level.  A cloud is an explicit      *)
(*    array of points (ring id, coordinate).                               *)
(*                                                                         *)
(* Units: rotations in 0.05 degree, translations in 0.5 mm, so that the    *)
(* abort thresholds (0.1 degree, 0.1 cm) are both 2 units.                 *)
(***************************************************************************)
EXTENDS Integers, Sequences, FiniteSets, TLC

\* ------------------------------------------------------------------ bounds
MaxCalls == 3
MaxIterCap == 6

\* ------------------------------------------------------- program constants
MinCornerCloud == 10
MinSurfaceCloud == 100
MinPointSel == 10
RefreshPeriod == 5
deltaTAbort == 2
deltaRAbort == 2
eigenThreshold == 10

\* ------------------------------------------------------------------ floats
\* A float: a finite value (exact), NaN or a signed infinity.
F(n) == [k |-> "fin", v |-> n]
NaN == [k |-> "nan", v |-> 0]
PInf == [k |-> "inf", v |-> 1]
NInf == [k |-> "inf", v |-> -1]

\* std::isfinite
IsFinite(a) == a.k = "fin"

Neg(a) == IF a.k = "nan" THEN NaN ELSE [k |-> a.k, v |-> -a.v]

\* IEEE addition: NaN is absorbing, inf + (-inf) = NaN.
Add(a, b) ==
    IF a.k = "nan" \/ b.k = "nan" THEN NaN
    ELSE IF a.k = "inf" /\ b.k = "inf" THEN (IF a.v = b.v THEN a ELSE NaN)
    ELSE IF a.k = "inf" THEN a
    ELSE IF b.k = "inf" THEN b
    ELSE F(a.v + b.v)

Sub(a, b) == Add(a, Neg(b))

Sign(n) == IF n > 0 THEN 1 ELSE IF n < 0 THEN -1 ELSE 0

\* IEEE multiplication: 0 * inf = NaN.
Mul(a, b) ==
    IF a.k = "nan" \/ b.k = "nan" THEN NaN
    ELSE IF a.k = "inf" \/ b.k = "inf"
         THEN (IF a.v = 0 \/ b.v = 0 THEN NaN
               ELSE [k |-> "inf", v |-> Sign(a.v) * Sign(b.v)])
    ELSE F(a.v * b.v)

Zero == F(0)

\* ------------------------------------------------------------------ values
Vec3(x, y, z) == [x |-> x, y |-> y, z |-> z]
ZeroVec == Vec3(Zero, Zero, Zero)

\* Transform(): zero rotation, zero translation.
ZeroTransform == [rot_x |-> Zero, rot_y |-> Zero, rot_z |-> Zero, pos |-> ZeroVec]

\* _transformSum after construction: a zero Transform into which no sweep
\* has been folded (steps: see AccumulatePose).
ZeroPose ==
    [rot_x |-> Zero, rot_y |-> Zero, rot_z |-> Zero, pos |-> ZeroVec, steps |-> <<>>]

\* new pcl::PointCloud<pcl::PointXYZI>(): an empty cloud.
\*   src: the buffer it was supplied in ("none": never supplied)
\*   sweep: the number of the supply
\*   n: points.size();  nan: how many of them have a non-finite coordinate
\*   toEnd: the (transform, IMU state) pairs transformToEnd applied, in order
EmptyCloud == [src |-> "none", sweep |-> 0, n |-> 0, nan |-> 0, toEnd |-> <<>>]

\* KdTreeFLANN before any setInputCloud().
NoTree == [built |-> FALSE, over |-> EmptyCloud]

\* std::vector<int> before any resize(): the correspondence index sets,
\* as the call of find...Correspondence that last wrote them.
NoCorr == [set |-> FALSE, iter |-> 0, frame |-> 0, tf |-> ZeroTransform]

\* Eigen::Matrix<float, 6, 6> matP: not initialized at its declaration.
UninitMat == [set |-> FALSE, zeroed |-> {}]

\* Eigen::Matrix<float, 6, 1> matX: the increment (rotation x, y, z, then
\* translation x, y, z).
Vec6(a, b, c, d, e, f) == [rx |-> a, ry |-> b, rz |-> c, tx |-> d, ty |-> e, tz |-> f]
ZeroX == Vec6(Zero, Zero, Zero, Zero, Zero, Zero)

ZeroIMU ==
    [pitchStart |-> Zero, yawStart |-> Zero, rollStart |-> Zero,
     pitchEnd |-> Zero, yawEnd |-> Zero, rollEnd |-> Zero,
     shiftFromStart |-> ZeroVec, veloFromStart |-> ZeroVec]

VARIABLES
    \* how many process() calls the run makes
    callCap,
    \* constructor parameters
    scanPeriod, maxIterations,
    \* engine state
    systemInited, frameCount, transform, transformSum, imu,
    cornerPointsSharp, cornerPointsLessSharp, surfPointsFlat, surfPointsLessFlat,
    lastCornerCloud, lastSurfaceCloud, lastCornerKDTree, lastSurfaceKDTree,
    pointSearchCornerInd, pointSearchSurfInd, laserCloudOri,
    \* locals of performOptimization that live across iterations
    iterCount, isDegenerate, matP,
    \* position in process()
    pc,
    \* history: what the calls did
    calls, bootstraps, entry, phases, opt,
    \* the points of one correspondence search (point level)
    lastCornerPoints, lastSurfacePoints, cornerTreePoints, surfTreePoints,
    sharpSel, flatSel,
    pointSearchCornerInd1, pointSearchCornerInd2,
    pointSearchSurfInd1, pointSearchSurfInd2, pointSearchSurfInd3,
    coeffSel, search, weighed

engineVars ==
    <<callCap, scanPeriod, maxIterations, systemInited, frameCount, transform, transformSum,
      imu, cornerPointsSharp, cornerPointsLessSharp, surfPointsFlat,
      surfPointsLessFlat, lastCornerCloud, lastSurfaceCloud, lastCornerKDTree,
      lastSurfaceKDTree, pointSearchCornerInd, pointSearchSurfInd, laserCloudOri,
      iterCount, isDegenerate, matP, pc>>

historyVars == <<calls, bootstraps, entry, phases, opt>>

pointVars ==
    <<lastCornerPoints, lastSurfacePoints, cornerTreePoints, surfTreePoints,
      sharpSel, flatSel, pointSearchCornerInd1, pointSearchCornerInd2,
      pointSearchSurfInd1, pointSearchSurfInd2, pointSearchSurfInd3,
      coeffSel, search, weighed>>

vars == <<engineVars, historyVars, pointVars>>

\* ---------------------------------------------------------------- history
\* The state process() was entered in.
Snapshot ==
    [systemInited |-> systemInited, transform |-> transform,
     transformSum |-> transformSum, imu |-> imu,
     cornerPointsLessSharp |-> cornerPointsLessSharp,
     surfPointsLessFlat |-> surfPointsLessFlat,
     lastCornerCloud |-> lastCornerCloud, lastSurfaceCloud |-> lastSurfaceCloud]

\* What the current performOptimization call did so far.
\*   ran: performOptimization was entered in this process() call
\*   entryTf: the incremental transform it was entered with
\*   started: loop iterations entered;  applied: iterations that updated
\*   degenAt: the iterCount of every checkDegeneration call, in order
\*   degenP: the projection matrix the last checkDegeneration call produced
\*   degenE: the eigenvalues it was given;  degenFlag: what it returned
\*   stopped: the convergence test ended the loop
\*   last: the last finished iteration
NoIter == [k |-> -1, rows |-> 0, refreshed |-> FALSE, applied |-> FALSE,
           before |-> ZeroTransform, x |-> ZeroX, projected |-> FALSE,
           proj |-> UninitMat, converged |-> FALSE]
NoOpt == [ran |-> FALSE, entryTf |-> ZeroTransform, started |-> 0, applied |-> 0,
          degenAt |-> <<>>, degenP |-> UninitMat, degenE |-> <<>>,
          degenFlag |-> FALSE, stopped |-> FALSE, last |-> NoIter]

\* The point level before any cloud is looked into: empty clouds, index
\* vectors never resized, empty coefficient buffer.
NoPoints == [win |-> <<>>, pad |-> 0]
NoSel == [win |-> <<>>, n |-> 0]
NoSearch == [fn |-> "none", i |-> 0]
NoWeighed == [kind |-> "none", iter |-> 0, d |-> Zero, range |-> 0, s |-> Zero,
              kept |-> FALSE]

PointsNotLookedInto ==
    /\ lastCornerPoints = NoPoints /\ lastSurfacePoints = NoPoints
    /\ cornerTreePoints = NoPoints /\ surfTreePoints = NoPoints
    /\ sharpSel = NoSel /\ flatSel = NoSel
    /\ pointSearchCornerInd1 = <<>> /\ pointSearchCornerInd2 = <<>>
    /\ pointSearchSurfInd1 = <<>> /\ pointSearchSurfInd2 = <<>>
    /\ pointSearchSurfInd3 = <<>>
    /\ coeffSel = <<>> /\ search = NoSearch /\ weighed = NoWeighed

\* BasicLaserOdometry(scanPeriod, maxIterations): the state after construction.
Constructed(period, iterations, cap) ==
    /\ callCap = cap
    /\ scanPeriod = period
    /\ maxIterations = iterations
    /\ systemInited = FALSE
    /\ frameCount = 0
    /\ transform = ZeroTransform
    /\ transformSum = ZeroPose
    /\ imu = ZeroIMU
    /\ cornerPointsSharp = EmptyCloud
    /\ cornerPointsLessSharp = EmptyCloud
    /\ surfPointsFlat = EmptyCloud
    /\ surfPointsLessFlat = EmptyCloud
    /\ lastCornerCloud = EmptyCloud
    /\ lastSurfaceCloud = EmptyCloud
    /\ lastCornerKDTree = NoTree
    /\ lastSurfaceKDTree = NoTree
    /\ pointSearchCornerInd = NoCorr
    /\ pointSearchSurfInd = NoCorr
    /\ laserCloudOri = 0
    /\ iterCount = 0
    /\ isDegenerate = FALSE
    /\ matP = UninitMat
    /\ pc = "idle"
    /\ calls = 0
    /\ bootstraps = 0
    /\ entry = Snapshot
    /\ phases = <<>>
    /\ opt = NoOpt
    /\ PointsNotLookedInto

\* A sweep period of 2 time units; the sweep pipeline is explored with an
\* iteration cap of 1, the solver loop (OptSpec) with the full cap.
Init == Constructed(2, 1, MaxCalls)
OptInit == Constructed(2, MaxIterCap, 2)

\* ------------------------------------------------------------------ inputs
\* One sweep's four feature clouds, as the feature extraction delivers them:
\* sizes of (sharp, less sharp, flat, less flat) and the number of less-sharp
\* points with a non-finite coordinate.
SweepInputs ==
    { [sharp |-> 4, lessSharp |-> 11, flat |-> 8, lessFlat |-> 101, nan |-> 0],
      [sharp |-> 4, lessSharp |-> 12, flat |-> 8, lessFlat |-> 101, nan |-> 1],
      [sharp |-> 4, lessSharp |-> 10, flat |-> 8, lessFlat |-> 101, nan |-> 0],
      [sharp |-> 4, lessSharp |-> 11, flat |-> 8, lessFlat |-> 100, nan |-> 0],
      [sharp |-> 2, lessSharp |-> 5, flat |-> 4, lessFlat |-> 50, nan |-> 0] }

NewCloud(name, sweep, n, nan) ==
    [src |-> name, sweep |-> sweep, n |-> n, nan |-> nan, toEnd |-> <<>>]

\* The IMU summaries of a sweep (imuTrans: 4 points).
IMUInputs ==
    { ZeroIMU,
      [pitchStart |-> F(3), yawStart |-> F(1), rollStart |-> F(-2),
       pitchEnd |-> F(4), yawEnd |-> F(1), rollEnd |-> F(-2),
       shiftFromStart |-> Vec3(F(1), Zero, Zero),
       veloFromStart |-> Vec3(F(2), Zero, F(-1))] }

\* The caller fills the four input clouds of the next sweep (once per call).
SupplySweep ==
    /\ pc = "idle"
    /\ calls < callCap
    /\ cornerPointsSharp.sweep # calls + 1
    /\ \E in \in SweepInputs :
        /\ cornerPointsSharp' = NewCloud("cornerPointsSharp", calls + 1, in.sharp, 0)
        /\ cornerPointsLessSharp' =
               NewCloud("cornerPointsLessSharp", calls + 1, in.lessSharp, in.nan)
        /\ surfPointsFlat' = NewCloud("surfPointsFlat", calls + 1, in.flat, 0)
        /\ surfPointsLessFlat' = NewCloud("surfPointsLessFlat", calls + 1, in.lessFlat, 0)
    /\ UNCHANGED <<callCap, scanPeriod, maxIterations, systemInited, frameCount, transform,
                   transformSum, imu, lastCornerCloud, lastSurfaceCloud,
                   lastCornerKDTree, lastSurfaceKDTree, pointSearchCornerInd,
                   pointSearchSurfInd, laserCloudOri, iterCount, isDegenerate, matP,
                   pc, historyVars>>
    /\ UNCHANGED pointVars

\* updateIMU(imuTrans)
updateIMU ==
    /\ pc = "idle"
    /\ calls < callCap
    /\ \E m \in IMUInputs : imu' = m
    /\ UNCHANGED <<callCap, scanPeriod, maxIterations, systemInited, frameCount, transform,
                   transformSum, cornerPointsSharp, cornerPointsLessSharp,
                   surfPointsFlat, surfPointsLessFlat, lastCornerCloud,
                   lastSurfaceCloud, lastCornerKDTree, lastSurfaceKDTree,
                   pointSearchCornerInd, pointSearchSurfInd, laserCloudOri,
                   iterCount, isDegenerate, matP, pc, historyVars>>
    /\ UNCHANGED pointVars

\* ------------------------------------------------------------ process()
\* KdTreeFLANN::setInputCloud(cloud): the index holds the points it was built over.
setInputCloud(cloud) == [built |-> TRUE, over |-> cloud]

\* Variant: a seed that takes the IMU start yaw as well.
SeedPoseWithYaw(sum, m) ==
    [sum EXCEPT !.rot_x = Add(@, m.pitchStart), !.rot_y = Add(@, m.yawStart),
                !.rot_z = Add(@, m.rollStart)]

\* _transformSum.rot_x += _imuPitchStart; _transformSum.rot_z += _imuRollStart
SeedPose(sum, m) ==
    [sum EXCEPT !.rot_x = Add(@, m.pitchStart), !.rot_z = Add(@, m.rollStart)]

\* Variant: an engine that waits for a non-empty first sweep.
InitedOnlyWithData == cornerPointsLessSharp.n > 0

\* this->_systemInited = true, at the end of the first call.
InitedAfterBootstrap == TRUE

\* process(), first call: the branch under !_systemInited, to its return.
ProcessBootstrap ==
    /\ pc = "idle"
    /\ calls < callCap
    /\ ~systemInited
    /\ lastCornerCloud' = cornerPointsLessSharp
    /\ cornerPointsLessSharp' = lastCornerCloud
    /\ lastSurfaceCloud' = surfPointsLessFlat
    /\ surfPointsLessFlat' = lastSurfaceCloud
    /\ lastCornerKDTree' = setInputCloud(lastCornerCloud')
    /\ lastSurfaceKDTree' = setInputCloud(lastSurfaceCloud')
    /\ transformSum' = SeedPose(transformSum, imu)
    /\ systemInited' = InitedAfterBootstrap
    /\ calls' = calls + 1
    /\ bootstraps' = bootstraps + 1
    /\ entry' = Snapshot
    /\ phases' = <<"bootstrap", "buildIndex">>
    /\ opt' = NoOpt
    /\ UNCHANGED <<callCap, scanPeriod, maxIterations, frameCount, transform, imu,
                   cornerPointsSharp, surfPointsFlat, pointSearchCornerInd,
                   pointSearchSurfInd, laserCloudOri, iterCount, isDegenerate,
                   matP, pc>>
    /\ UNCHANGED pointVars

\* this->_transform.pos -= this->_imuVeloFromStart * this->_scanPeriod
MotionPrior(tf, velo, period) ==
    [tf EXCEPT !.pos = Vec3(Sub(tf.pos.x, Mul(velo.x, F(period))),
                            Sub(tf.pos.y, Mul(velo.y, F(period))),
                            Sub(tf.pos.z, Mul(velo.z, F(period))))]

\* Variant: a guard that is content with one large cloud.
LargeEnoughEither(corner, surface) ==
    corner.n > MinCornerCloud \/ surface.n > MinSurfaceCloud

\* The guard of performOptimization, and of the index rebuild.
LargeEnough(corner, surface) ==
    corner.n > MinCornerCloud /\ surface.n > MinSurfaceCloud

\* process(), a later call: _frameCount++ and the motion prior.
ProcessSteady ==
    /\ pc = "idle"
    /\ calls < callCap
    /\ systemInited
    /\ frameCount' = frameCount + 1
    /\ transform' = MotionPrior(transform, imu.veloFromStart, scanPeriod)
    /\ pc' = "guard"
    /\ calls' = calls + 1
    /\ entry' = Snapshot
    /\ phases' = <<"motionPrior">>
    /\ opt' = NoOpt
    /\ UNCHANGED <<callCap, scanPeriod, maxIterations, systemInited, transformSum, imu,
                   cornerPointsSharp, cornerPointsLessSharp, surfPointsFlat,
                   surfPointsLessFlat, lastCornerCloud, lastSurfaceCloud,
                   lastCornerKDTree, lastSurfaceKDTree, pointSearchCornerInd,
                   pointSearchSurfInd, laserCloudOri, iterCount, isDegenerate,
                   matP, bootstraps>>
    /\ UNCHANGED pointVars

\* pcl::removeNaNFromPointCloud(cloud, cloud, indices): in place.
removeNaNFromPointCloud(cloud) == [cloud EXCEPT !.n = @ - cloud.nan, !.nan = 0]

\* The reference clouds are large enough: performOptimization() is entered
\* (its statements before the loop).
EnterOptimization ==
    /\ pc = "guard"
    /\ LargeEnough(lastCornerCloud, lastSurfaceCloud)
    /\ cornerPointsSharp' = removeNaNFromPointCloud(cornerPointsSharp)
    /\ isDegenerate' = FALSE
    /\ matP' = UninitMat
    /\ iterCount' = 0
    /\ pc' = "loop"
    /\ phases' = Append(phases, "optimization")
    /\ opt' = [NoOpt EXCEPT !.ran = TRUE, !.entryTf = transform]
    /\ UNCHANGED <<callCap, scanPeriod, maxIterations, systemInited, frameCount, transform,
                   transformSum, imu, cornerPointsLessSharp, surfPointsFlat,
                   surfPointsLessFlat, lastCornerCloud, lastSurfaceCloud,
                   lastCornerKDTree, lastSurfaceKDTree, pointSearchCornerInd,
                   pointSearchSurfInd, laserCloudOri, calls, bootstraps, entry>>
    /\ UNCHANGED pointVars

\* The reference clouds are too small: performOptimization() is not called.
SkipOptimization ==
    /\ pc = "guard"
    /\ ~LargeEnough(lastCornerCloud, lastSurfaceCloud)
    /\ pc' = "accumulate"
    /\ UNCHANGED <<callCap, scanPeriod, maxIterations, systemInited, frameCount, transform,
                   transformSum, imu, cornerPointsSharp, cornerPointsLessSharp,
                   surfPointsFlat, surfPointsLessFlat, lastCornerCloud,
                   lastSurfaceCloud, lastCornerKDTree, lastSurfaceKDTree,
                   pointSearchCornerInd, pointSearchSurfInd, laserCloudOri,
                   iterCount, isDegenerate, matP, historyVars>>
    /\ UNCHANGED pointVars

\* --------------------------------------------------- performOptimization()
\* How many (point, coefficient) rows computeCornerDistances and
\* computePlaneDistances may leave in _laserCloudOri: at most one per
\* feature point.
SelCounts == {0, 9, 10}
PossibleRows(sharp, flat) == {n \in SelCounts : n <= sharp.n + flat.n}

\* The rows are a function of the index sets, the transform, the feature
\* clouds and the weight regime (iterCount < 5 or not).  After a skipped
\* iteration the transform is the same: without a refresh the same rows
\* come out; with a refresh from the transform of the last refresh the same
\* index sets come out, and the weights can only discard more points.
RowsAfter(k, last, rows, corr, tf, sharp, flat) ==
    IF last.k >= 0 /\ last.k = k - 1 /\ ~last.applied
    THEN IF ~(k % RefreshPeriod = 0) THEN {rows}
         ELSE IF corr.tf = tf THEN {n \in PossibleRows(sharp, flat) : n <= rows}
         ELSE PossibleRows(sharp, flat)
    ELSE PossibleRows(sharp, flat)

\* find...Correspondence(): the index sets it writes, as the call that wrote them.
Correspondence(k, frame, tf) == [set |-> TRUE, iter |-> k, frame |-> frame, tf |-> tf]

\* Variant: a search in every iteration.
RefreshDueAlways(k) == TRUE

\* iterCount % 5 == 0
RefreshDue(k) == k % RefreshPeriod = 0

\* One loop iteration, up to pointSelNum: the buffers are cleared, the
\* correspondences refreshed when due (findCornerCorrespondence first removes
\* the non-finite points of _lastCornerCloud in place), the rows recomputed.
ComputeDistances ==
    /\ pc = "loop"
    /\ iterCount < maxIterations
    /\ IF RefreshDue(iterCount)
       THEN /\ lastCornerCloud' = removeNaNFromPointCloud(lastCornerCloud)
            /\ pointSearchCornerInd' = Correspondence(iterCount, frameCount, transform)
            /\ pointSearchSurfInd' = Correspondence(iterCount, frameCount, transform)
       ELSE UNCHANGED <<lastCornerCloud, pointSearchCornerInd, pointSearchSurfInd>>
    /\ laserCloudOri' \in RowsAfter(iterCount, opt.last, laserCloudOri, pointSearchCornerInd,
                                    transform, cornerPointsSharp, surfPointsFlat)
    /\ pc' = "rows"
    /\ opt' = [opt EXCEPT !.started = @ + 1]
    /\ UNCHANGED <<callCap, scanPeriod, maxIterations, systemInited, frameCount, transform,
                   transformSum, imu, cornerPointsSharp, cornerPointsLessSharp,
                   surfPointsFlat, surfPointsLessFlat, lastSurfaceCloud,
                   lastCornerKDTree, lastSurfaceKDTree, iterCount, isDegenerate,
                   matP, calls, bootstraps, entry, phases>>
    /\ UNCHANGED pointVars

\* Variant: a threshold one row lower.
TooFewRowsBelowNine(n) == n < MinPointSel - 1

\* pointSelNum < 10
TooFewRows(n) == n < MinPointSel

\* Variant: a skipped iteration that ends the loop.
AfterSkipReturns == "accumulate"

\* continue: the loop goes to its increment and its test.
AfterSkip == "loop"

\* if (pointSelNum < 10) continue;
SkipIteration ==
    /\ pc = "rows"
    /\ TooFewRows(laserCloudOri)
    /\ iterCount' = iterCount + 1
    /\ pc' = AfterSkip
    /\ opt' = [opt EXCEPT !.last =
                 [NoIter EXCEPT !.k = iterCount, !.rows = laserCloudOri,
                                !.refreshed = RefreshDue(iterCount),
                                !.before = transform, !.proj = matP]]
    /\ UNCHANGED <<callCap, scanPeriod, maxIterations, systemInited, frameCount, transform,
                   transformSum, imu, cornerPointsSharp, cornerPointsLessSharp,
                   surfPointsFlat, surfPointsLessFlat, lastCornerCloud,
                   lastSurfaceCloud, lastCornerKDTree, lastSurfaceKDTree,
                   pointSearchCornerInd, pointSearchSurfInd, laserCloudOri,
                   isDegenerate, matP, calls, bootstraps, entry, phases>>
    /\ UNCHANGED pointVars

\* matAtA.colPivHouseholderQr().solve(matAtB): the raw increments an
\* iteration may compute.
SolveResults ==
    { ZeroX,
      Vec6(F(1), Zero, Zero, Zero, F(1), Zero),
      Vec6(Zero, Zero, Zero, F(2), Zero, Zero),
      Vec6(Zero, NaN, Zero, F(1), Zero, PInf) }

\* The eigenvalues of matAtA in increasing order, as
\* SelfAdjointEigenSolver returns them; the Hessians considered are diagonal
\* with an increasing diagonal, so the eigenvector matrix matV is the identity.
Hessians ==
    { <<10, 12, 15, 20, 30, 40>>,
      <<1, 9, 10, 20, 30, 40>>,
      <<0, 0, 0, 0, 0, 9>> }

\* The loop of checkDegeneration: the rows of matV2 set to zero, scanning
\* from eigenvalue i and stopping at the first one not below the threshold.
RECURSIVE ZeroedRows(_, _)
ZeroedRows(matE, i) ==
    IF i > Len(matE) THEN {}
    ELSE IF matE[i] < eigenThreshold THEN {i} \cup ZeroedRows(matE, i + 1)
    ELSE {}

\* Variant: a check of the smallest eigenvalue only.
checkDegenerationFirstOnly(matE) ==
    [isDegenerate |-> matE[1] < eigenThreshold,
     projectionMat |-> [set |-> TRUE,
                        zeroed |-> IF matE[1] < eigenThreshold THEN {1} ELSE {}]]

\* checkDegeneration(hessianMat, projectionMat): isDegenerate, and
\* projectionMat = matV.inverse() * matV2 (matV the identity: the identity
\* with the rows `zeroed` set to zero).
checkDegeneration(matE) ==
    [isDegenerate |-> ZeroedRows(matE, 1) # {},
     projectionMat |-> [set |-> TRUE, zeroed |-> ZeroedRows(matE, 1)]]

XSeq(x) == <<x.rx, x.ry, x.rz, x.tx, x.ty, x.tz>>

\* Entry (i, j) of the projection matrix.
MatEntry(P, i, j) == IF i = j /\ i \notin P.zeroed THEN F(1) ELSE Zero

\* Row i of matP * matX2, in IEEE arithmetic (0 * NaN = NaN).
RowDot(P, xs, i) ==
    Add(Add(Add(Add(Add(Mul(MatEntry(P, i, 1), xs[1]), Mul(MatEntry(P, i, 2), xs[2])),
                    Mul(MatEntry(P, i, 3), xs[3])), Mul(MatEntry(P, i, 4), xs[4])),
            Mul(MatEntry(P, i, 5), xs[5])), Mul(MatEntry(P, i, 6), xs[6]))

\* matX = matP * matX2
ApplyProjection(P, x) ==
    Vec6(RowDot(P, XSeq(x), 1), RowDot(P, XSeq(x), 2), RowDot(P, XSeq(x), 3),
         RowDot(P, XSeq(x), 4), RowDot(P, XSeq(x), 5), RowDot(P, XSeq(x), 6))

\* Update the transformation (rotation and translation).
ApplyIncrement(tf, x) ==
    [rot_x |-> Add(tf.rot_x, x.rx), rot_y |-> Add(tf.rot_y, x.ry),
     rot_z |-> Add(tf.rot_z, x.rz),
     pos |-> Vec3(Add(tf.pos.x, x.tx), Add(tf.pos.y, x.ty), Add(tf.pos.z, x.tz))]

\* if (!std::isfinite(c)) c = 0, for one component.
ResetIfNotFinite(a) == IF IsFinite(a) THEN a ELSE Zero

\* Variant: a reset of the whole transform when any component is invalid.
ResetWhole(tf) ==
    IF /\ IsFinite(tf.rot_x) /\ IsFinite(tf.rot_y) /\ IsFinite(tf.rot_z)
       /\ IsFinite(tf.pos.x) /\ IsFinite(tf.pos.y) /\ IsFinite(tf.pos.z)
    THEN tf ELSE ZeroTransform

\* Reset the transformation if values are invalid (NaN or infinity).
ResetNonFinite(tf) ==
    [rot_x |-> ResetIfNotFinite(tf.rot_x), rot_y |-> ResetIfNotFinite(tf.rot_y),
     rot_z |-> ResetIfNotFinite(tf.rot_z),
     pos |-> Vec3(ResetIfNotFinite(tf.pos.x), ResetIfNotFinite(tf.pos.y),
                  ResetIfNotFinite(tf.pos.z))]

\* a < b on floats: false when either is NaN.
Less(a, b) ==
    /\ a.k # "nan" /\ b.k # "nan"
    /\ IF a.k = "inf" THEN a.v < 0 /\ b # a
       ELSE IF b.k = "inf" THEN b.v > 0
       ELSE a.v < b.v

SumSq(a, b, c) == Add(Add(Mul(a, a), Mul(b, b)), Mul(c, c))

\* Variant: a stop when either delta is under its threshold.
ConvergedEither(x) ==
    \/ Less(SumSq(x.rx, x.ry, x.rz), F(deltaRAbort * deltaRAbort))
    \/ Less(SumSq(x.tx, x.ty, x.tz), F(deltaTAbort * deltaTAbort))

\* deltaR < _deltaRAbort && deltaT < _deltaTAbort, the deltas being the
\* norms of the rotation and translation increments (compared squared).
Converged(x) ==
    /\ Less(SumSq(x.rx, x.ry, x.rz), F(deltaRAbort * deltaRAbort))
    /\ Less(SumSq(x.tx, x.ty, x.tz), F(deltaTAbort * deltaTAbort))

\* Variant: a degeneracy check in every updating iteration.
DegenerationCheckAlways(k) == TRUE

\* Whether this iteration runs checkDegeneration.
DegenerationCheckDue(k) == k = 0

\* The rest of an iteration with at least 10 rows: solve, check the
\* degeneration on the first iteration, project, update, reset, test.
SolveAndUpdate ==
    /\ pc = "rows"
    /\ ~TooFewRows(laserCloudOri)
    /\ \E raw \in SolveResults, matE \in Hessians :
        LET check == DegenerationCheckDue(iterCount)
            res == checkDegeneration(matE)
            deg == IF check THEN res.isDegenerate ELSE isDegenerate
            P == IF check THEN res.projectionMat ELSE matP
            matX == IF deg THEN ApplyProjection(P, raw) ELSE raw
            stop == Converged(matX)
        IN  /\ (~check => matE = CHOOSE e \in Hessians : TRUE)
            /\ transform' = ResetNonFinite(ApplyIncrement(transform, matX))
            /\ IF stop
               THEN \* break: the function returns, its locals end
                    /\ pc' = "accumulate"
                    /\ iterCount' = 0 /\ isDegenerate' = FALSE /\ matP' = UninitMat
               ELSE /\ pc' = "loop"
                    /\ iterCount' = iterCount + 1
                    /\ isDegenerate' = deg /\ matP' = P
            /\ opt' = [opt EXCEPT
                         !.applied = @ + 1,
                         !.degenAt = IF check THEN Append(@, iterCount) ELSE @,
                         !.degenP = IF check THEN res.projectionMat ELSE @,
                         !.degenE = IF check THEN matE ELSE @,
                         !.degenFlag = IF check THEN res.isDegenerate ELSE @,
                         !.stopped = stop,
                         !.last = [k |-> iterCount, rows |-> laserCloudOri,
                                   refreshed |-> RefreshDue(iterCount),
                                   applied |-> TRUE, before |-> transform,
                                   x |-> matX, projected |-> deg, proj |-> P,
                                   converged |-> stop]]
    /\ UNCHANGED <<callCap, scanPeriod, maxIterations, systemInited, frameCount,
                   transformSum, imu, cornerPointsSharp, cornerPointsLessSharp,
                   surfPointsFlat, surfPointsLessFlat, lastCornerCloud,
                   lastSurfaceCloud, lastCornerKDTree, lastSurfaceKDTree,
                   pointSearchCornerInd, pointSearchSurfInd, laserCloudOri,
                   calls, bootstraps, entry, phases>>
    /\ UNCHANGED pointVars

\* iterCount < _maxIterations fails: performOptimization() returns, its
\* locals end.
LoopExit ==
    /\ pc = "loop"
    /\ iterCount >= maxIterations
    /\ pc' = "accumulate"
    /\ iterCount' = 0 /\ isDegenerate' = FALSE /\ matP' = UninitMat
    /\ UNCHANGED <<callCap, scanPeriod, maxIterations, systemInited, frameCount, transform,
                   transformSum, imu, cornerPointsSharp, cornerPointsLessSharp,
                   surfPointsFlat, surfPointsLessFlat, lastCornerCloud,
                   lastSurfaceCloud, lastCornerKDTree, lastSurfaceKDTree,
                   pointSearchCornerInd, pointSearchSurfInd, laserCloudOri,
                   historyVars>>
    /\ UNCHANGED pointVars

\* ------------------------------------------------------- pose accumulation
\* Variant: a call that leaves the cumulative pose as it found it.
AccumulatePoseDropped(sum, tf, m) == sum

\* The new cumulative pose: accumulateRotation, the rotated translation and
\* pluginIMURotation are functions of math_utils.h applied to the old
\* cumulative pose, the incremental transform and the IMU state.  The model
\* does not evaluate them: the pose keeps, after its seed, the list of the
\* (transform, IMU state) pairs folded into it.
AccumulatePose(sum, tf, m) ==
    [sum EXCEPT !.steps = Append(@, [tf |-> tf, imu |-> m])]

\* process(): from accumulateRotation to the assignments of _transformSum.
PoseAccumulation ==
    /\ pc = "accumulate"
    /\ transformSum' = AccumulatePose(transformSum, transform, imu)
    /\ pc' = "toEndCorner"
    /\ phases' = Append(phases, "poseAccumulation")
    /\ UNCHANGED <<callCap, scanPeriod, maxIterations, systemInited, frameCount, transform,
                   imu, cornerPointsSharp, cornerPointsLessSharp, surfPointsFlat,
                   surfPointsLessFlat, lastCornerCloud, lastSurfaceCloud,
                   lastCornerKDTree, lastSurfaceKDTree, pointSearchCornerInd,
                   pointSearchSurfInd, laserCloudOri, iterCount, isDegenerate,
                   matP, calls, bootstraps, entry, opt>>
    /\ UNCHANGED pointVars

\* Variant: a reprojection that leaves the cloud as it is.
transformToEndSkipped(cloud, tf, m) == cloud

\* transformToEnd(cloud): every point is rewritten in place with the current
\* incremental transform and IMU state.
transformToEnd(cloud, tf, m) ==
    [cloud EXCEPT !.toEnd = Append(@, [tf |-> tf, imu |-> m])]

\* this->transformToEnd(this->_cornerPointsLessSharp)
TransformToEndCorner ==
    /\ pc = "toEndCorner"
    /\ cornerPointsLessSharp' = transformToEnd(cornerPointsLessSharp, transform, imu)
    /\ pc' = "toEndSurf"
    /\ phases' = Append(phases, "transformToEnd")
    /\ UNCHANGED <<callCap, scanPeriod, maxIterations, systemInited, frameCount, transform,
                   transformSum, imu, cornerPointsSharp, surfPointsFlat,
                   surfPointsLessFlat, lastCornerCloud, lastSurfaceCloud,
                   lastCornerKDTree, lastSurfaceKDTree, pointSearchCornerInd,
                   pointSearchSurfInd, laserCloudOri, iterCount, isDegenerate,
                   matP, calls, bootstraps, entry, opt>>
    /\ UNCHANGED pointVars

\* this->transformToEnd(this->_surfPointsLessFlat)
TransformToEndSurf ==
    /\ pc = "toEndSurf"
    /\ surfPointsLessFlat' = transformToEnd(surfPointsLessFlat, transform, imu)
    /\ pc' = "swap"
    /\ phases' = Append(phases, "transformToEnd")
    /\ UNCHANGED <<callCap, scanPeriod, maxIterations, systemInited, frameCount, transform,
                   transformSum, imu, cornerPointsSharp, cornerPointsLessSharp,
                   surfPointsFlat, lastCornerCloud, lastSurfaceCloud,
                   lastCornerKDTree, lastSurfaceKDTree, pointSearchCornerInd,
                   pointSearchSurfInd, laserCloudOri, iterCount, isDegenerate,
                   matP, calls, bootstraps, entry, opt>>
    /\ UNCHANGED pointVars

\* Update the corner and planar points for the next scan: the two swaps.
SwapReference ==
    /\ pc = "swap"
    /\ lastCornerCloud' = cornerPointsLessSharp
    /\ cornerPointsLessSharp' = lastCornerCloud
    /\ lastSurfaceCloud' = surfPointsLessFlat
    /\ surfPointsLessFlat' = lastSurfaceCloud
    /\ pc' = "rebuild"
    /\ phases' = Append(phases, "swap")
    /\ UNCHANGED <<callCap, scanPeriod, maxIterations, systemInited, frameCount, transform,
                   transformSum, imu, cornerPointsSharp, surfPointsFlat,
                   lastCornerKDTree, lastSurfaceKDTree, pointSearchCornerInd,
                   pointSearchSurfInd, laserCloudOri, iterCount, isDegenerate,
                   matP, calls, bootstraps, entry, opt>>
    /\ UNCHANGED pointVars

\* Variant: a rebuild that wants one corner point more than the guard of the
\* optimization.
RebuildWhenLarger(corner, surface) ==
    corner.n > MinCornerCloud + 1 /\ surface.n > MinSurfaceCloud

\* Variant: an unconditional rebuild.
RebuildAlways(corner, surface) == TRUE

\* Whether the steady call rebuilds the indices over the new reference clouds.
RebuildDue(corner, surface) == LargeEnough(corner, surface)

\* The new reference clouds are large enough: both indices are rebuilt;
\* process() returns.
RebuildIndices ==
    /\ pc = "rebuild"
    /\ RebuildDue(lastCornerCloud, lastSurfaceCloud)
    /\ lastCornerKDTree' = setInputCloud(lastCornerCloud)
    /\ lastSurfaceKDTree' = setInputCloud(lastSurfaceCloud)
    /\ pc' = "idle"
    /\ phases' = Append(phases, "buildIndex")
    /\ UNCHANGED <<callCap, scanPeriod, maxIterations, systemInited, frameCount, transform,
                   transformSum, imu, cornerPointsSharp, cornerPointsLessSharp,
                   surfPointsFlat, surfPointsLessFlat, lastCornerCloud,
                   lastSurfaceCloud, pointSearchCornerInd, pointSearchSurfInd,
                   laserCloudOri, iterCount, isDegenerate, matP, calls,
                   bootstraps, entry, opt>>
    /\ UNCHANGED pointVars

\* The new reference clouds are too small: the old indices stay; process() returns.
KeepIndices ==
    /\ pc = "rebuild"
    /\ ~RebuildDue(lastCornerCloud, lastSurfaceCloud)
    /\ pc' = "idle"
    /\ UNCHANGED <<callCap, scanPeriod, maxIterations, systemInited, frameCount, transform,
                   transformSum, imu, cornerPointsSharp, cornerPointsLessSharp,
                   surfPointsFlat, surfPointsLessFlat, lastCornerCloud,
                   lastSurfaceCloud, lastCornerKDTree, lastSurfaceKDTree,
                   pointSearchCornerInd, pointSearchSurfInd, laserCloudOri,
                   iterCount, isDegenerate, matP, historyVars>>
    /\ UNCHANGED pointVars

Next ==
    \/ SupplySweep
    \/ updateIMU
    \/ ProcessBootstrap
    \/ ProcessSteady
    \/ EnterOptimization
    \/ SkipOptimization
    \/ ComputeDistances
    \/ SkipIteration
    \/ SolveAndUpdate
    \/ LoopExit
    \/ PoseAccumulation
    \/ TransformToEndCorner
    \/ TransformToEndSurf
    \/ SwapReference
    \/ RebuildIndices
    \/ KeepIndices

Spec == Init /\ [][Next]_vars

\* The solver loop at its full iteration cap: a fresh engine, the bootstrap
\* call and the first steady call.
OptSpec == OptInit /\ [][Next]_vars

\* ---------------------------------------------------------------------
\* The correspondence search, point by point
\* ---------------------------------------------------------------------
\* Points lie on one axis (coordinates in metres).  A reference cloud is its
\* first points (win), written out, followed by pad points far from every
\* feature point, on the ring of the last written point.  A reference point
\* is [ring, x, finite]: ring is static_cast<int>(intensity).  A feature
\* cloud is the reprojected coordinates (transformToStart) of its first
\* points, followed by n - Len(win) points far from every reference point.
MaxRing == 3
WindowLen == 3
Far == 100

\* pointSearchSqDis[0] >= 25.0f, minPointSqDis2 = 25.0f
SqCutoff == 25
\* scanId > closestPointScan + 2.5f, on doubled ring ids
RingWindowTwice == 5

\* The origin is at the feature point.  How the written reference points lie:
\* all at the feature point, 1 m apart from it outwards, all 6 m away,
\* alternately at it and 6 m away, or all 5 m away.
Layouts == {"near", "spread", "far", "mixed", "cutoff"}
Coord(layout, i) ==
    CASE layout = "near" -> 0
      [] layout = "spread" -> i - 1
      [] layout = "far" -> 6
      [] layout = "cutoff" -> 5
      [] layout = "mixed" -> IF i % 2 = 1 THEN 0 ELSE 6

Size(cloud) == Len(cloud.win) + cloud.pad
PadPoint(cloud) ==
    [ring |-> IF cloud.win = <<>> THEN 0 ELSE cloud.win[Len(cloud.win)].ring,
     x |-> Far, finite |-> TRUE]

\* What a read past the end of points[] may return: stale memory.
Garbage == [ring : {0, MaxRing}, x : {0, Far}, finite : {TRUE}]

\* cloud->points[j]; g is what the memory past the end holds.
PointAt(cloud, j, g) ==
    IF j < 0 THEN g
    ELSE IF j < Len(cloud.win) THEN cloud.win[j + 1]
    ELSE IF j < Size(cloud) THEN PadPoint(cloud)
    ELSE g

\* calcSquaredDiff(scanPoint, pointSel) < min; false for a non-finite point.
SqDiff(p, sel) == (p.x - sel) * (p.x - sel)
CloserThan(p, sel, min) == p.finite /\ SqDiff(p, sel) < min

RECURSIVE FiniteOnly(_)
FiniteOnly(win) ==
    IF win = <<>> THEN <<>>
    ELSE IF Head(win).finite THEN <<Head(win)>> \o FiniteOnly(Tail(win))
    ELSE FiniteOnly(Tail(win))

\* pcl::removeNaNFromPointCloud(cloud, cloud, indices), on the points.
removeNaNPoints(cloud) == [cloud EXCEPT !.win = FiniteOnly(@)]

\* KdTreeFLANN::nearestKSearch(pointSel, 1, ...): the indexed points are the
\* finite points of the cloud as it was at setInputCloud, under the indices
\* they had then; among equally near points any may be returned.
Indexed(tree) ==
    {j \in 0..(Len(tree.win) - 1) : tree.win[j + 1].finite}
        \cup (IF tree.pad > 0 THEN {Len(tree.win)} ELSE {})
nearestKSearch(tree, sel) ==
    {[ind |-> j, sqDis |-> SqDiff(PointAt(tree, j, PadPoint(tree)), sel)] :
        j \in {i \in Indexed(tree) :
                 \A o \in Indexed(tree) :
                     SqDiff(PointAt(tree, i, PadPoint(tree)), sel)
                         <= SqDiff(PointAt(tree, o, PadPoint(tree)), sel)}}

NoneFound == [ind |-> -1, sqDis |-> SqCutoff]

\* Variant: a nearest neighbour at exactly 5 m is still taken.
RejectedBeyondCutoff(nn) == nn.sqDis > SqCutoff

\* pointSearchSqDis[0] >= 25.0f: no correspondence for this feature point.
Rejected(nn) == nn.sqDis >= SqCutoff

\* findCornerCorrespondence: the forward loop from j to the bound.
RECURSIVE CornerForward(_, _, _, _, _, _, _)
CornerForward(cloud, g, sel, closestPointScan, j, bound, min) ==
    IF j >= bound THEN min
    ELSE LET scanPoint == PointAt(cloud, j, g)
             scanId == scanPoint.ring
         IN  IF 2 * scanId > 2 * closestPointScan + RingWindowTwice THEN min
             ELSE IF scanId <= closestPointScan
                  THEN CornerForward(cloud, g, sel, closestPointScan, j + 1, bound, min)
             ELSE CornerForward(cloud, g, sel, closestPointScan, j + 1, bound,
                                IF CloserThan(scanPoint, sel, min.sqDis)
                                THEN [ind |-> j, sqDis |-> SqDiff(scanPoint, sel)]
                                ELSE min)

\* findCornerCorrespondence: the backward loop from j down to 0.
RECURSIVE CornerBackward(_, _, _, _, _, _)
CornerBackward(cloud, g, sel, closestPointScan, j, min) ==
    IF j < 0 THEN min
    ELSE LET scanPoint == PointAt(cloud, j, g)
             scanId == scanPoint.ring
         IN  IF 2 * scanId < 2 * closestPointScan - RingWindowTwice THEN min
             ELSE IF scanId >= closestPointScan
                  THEN CornerBackward(cloud, g, sel, closestPointScan, j - 1, min)
             ELSE CornerBackward(cloud, g, sel, closestPointScan, j - 1,
                                 IF CloserThan(scanPoint, sel, min.sqDis)
                                 THEN [ind |-> j, sqDis |-> SqDiff(scanPoint, sel)]
                                 ELSE min)

\* findCornerCorrespondence, the body of its loop for one feature point:
\* (closestPointInd, minPointInd2).  The forward loop is bounded by the
\* number of feature points.
CornerMatch(cloud, nn, g, sel, cornerPointsSharpNum) ==
    IF Rejected(nn) THEN [ind1 |-> -1, ind2 |-> -1]
    ELSE LET closestPointScan == PointAt(cloud, nn.ind, g).ring
             fwd == CornerForward(cloud, g, sel, closestPointScan, nn.ind + 1,
                                  cornerPointsSharpNum, NoneFound)
             bwd == CornerBackward(cloud, g, sel, closestPointScan, nn.ind - 1, fwd)
         IN  [ind1 |-> nn.ind, ind2 |-> bwd.ind]

NoneFoundPair == [l |-> NoneFound, m |-> NoneFound]

\* findPlaneCorrespondence: the forward loop.  A point on a ring up to the
\* ring of the closest point is a candidate for minPointInd2, a point on a
\* higher ring for minPointInd3.
RECURSIVE PlaneForward(_, _, _, _, _, _, _)
PlaneForward(cloud, g, sel, closestPointScan, j, bound, min) ==
    IF j >= bound THEN min
    ELSE LET scanPoint == PointAt(cloud, j, g)
             scanId == scanPoint.ring
             found == [ind |-> j, sqDis |-> SqDiff(scanPoint, sel)]
         IN  IF 2 * scanId > 2 * closestPointScan + RingWindowTwice THEN min
             ELSE PlaneForward(cloud, g, sel, closestPointScan, j + 1, bound,
                      IF scanId <= closestPointScan
                      THEN IF CloserThan(scanPoint, sel, min.l.sqDis)
                           THEN [min EXCEPT !.l = found] ELSE min
                      ELSE IF CloserThan(scanPoint, sel, min.m.sqDis)
                           THEN [min EXCEPT !.m = found] ELSE min)

\* findPlaneCorrespondence: the backward loop.
RECURSIVE PlaneBackward(_, _, _, _, _, _)
PlaneBackward(cloud, g, sel, closestPointScan, j, min) ==
    IF j < 0 THEN min
    ELSE LET scanPoint == PointAt(cloud, j, g)
             scanId == scanPoint.ring
             found == [ind |-> j, sqDis |-> SqDiff(scanPoint, sel)]
         IN  IF 2 * scanId < 2 * closestPointScan - RingWindowTwice THEN min
             ELSE PlaneBackward(cloud, g, sel, closestPointScan, j - 1,
                      IF scanId >= closestPointScan
                      THEN IF CloserThan(scanPoint, sel, min.l.sqDis)
                           THEN [min EXCEPT !.l = found] ELSE min
                      ELSE IF CloserThan(scanPoint, sel, min.m.sqDis)
                           THEN [min EXCEPT !.m = found] ELSE min)

\* findPlaneCorrespondence, the body of its loop for one feature point:
\* (closestPointInd, minPointInd2, minPointInd3).
PlaneMatch(cloud, nn, g, sel, surfPointsFlatNum) ==
    IF Rejected(nn) THEN [ind1 |-> -1, ind2 |-> -1, ind3 |-> -1]
    ELSE LET closestPointScan == PointAt(cloud, nn.ind, g).ring
             fwd == PlaneForward(cloud, g, sel, closestPointScan, nn.ind + 1,
                                 surfPointsFlatNum, NoneFoundPair)
             bwd == PlaneBackward(cloud, g, sel, closestPointScan, nn.ind - 1, fwd)
         IN  [ind1 |-> nn.ind, ind2 |-> bwd.l.ind, ind3 |-> bwd.m.ind]

\* ---------------------------------------------------------------------
\* The distances and weights, point by point
\* ---------------------------------------------------------------------
\* Distances (ld2, pd2) are in millimetres, weights in units of 0.0001.
\* The axis does not carry the other two coordinates of a point, so the
\* distance of a written feature point from the line or plane through its
\* correspondents, and its range, are given with the feature point.
WeightOne == 10000
WeightSlope == 18
OutlierCutoff == 1000
\* iterCount < 5
FullWeightIterations == 5

\* std::fabs
Abs(a) == IF a.k = "fin" /\ a.v < 0 THEN F(-a.v) ELSE IF a.k = "inf" THEN PInf ELSE a

\* a / q for a positive integer q (the values used divide exactly).
DivBy(a, q) == IF a.k = "fin" THEN F(a.v \div q) ELSE a

\* a <= b on floats: false when either is NaN.
LessEq(a, b) == a.k # "nan" /\ b.k # "nan" /\ (a = b \/ Less(a, b))

\* std::sqrt, on the perfect squares used as ranges.
Sqrt(n) == CHOOSE q \in 0..n : q * q = n

\* calcPointDistance(pointSel): the range of the point, its distance from
\* the sensor.
calcPointDistance(p) == p.range

\* s = iterCount < 5 ? 1.0f : (1.0f - 1.8f * std::fabs(ld2))
cornerWeight(k, ld2) ==
    IF k < FullWeightIterations THEN F(WeightOne)
    ELSE Sub(F(WeightOne), Mul(F(WeightSlope), Abs(ld2)))

\* s = iterCount < 5 ? 1.0f :
\*     (1.0f - 1.8f * std::fabs(pd2) / std::sqrt(calcPointDistance(pointSel)))
planeWeight(k, pd2, p) ==
    IF k < FullWeightIterations THEN F(WeightOne)
    ELSE Sub(F(WeightOne),
             DivBy(Mul(F(WeightSlope), Abs(pd2)), Sqrt(calcPointDistance(p))))

\* Variant: a cutoff on the weight alone.
DiscardedByWeightOnly(s, d) == LessEq(s, F(OutlierCutoff))

\* Variant: a cutoff that keeps the weight 0.1 itself.
DiscardedBelowCutoff(s, d) == Less(s, F(OutlierCutoff)) \/ d = Zero

\* if (s <= 0.1f || ld2 == 0.0f) continue;
Discarded(s, d) == LessEq(s, F(OutlierCutoff)) \/ d = Zero

Distances == {F(0), F(2), F(400), F(500), F(-500), F(600), F(1000), F(1500), NaN}
PointRanges == {1, 4, 9}

\* ---------------------------------------------------------------------
\* One performOptimization() call, point by point
\* ---------------------------------------------------------------------
CornerPad == MinCornerCloud + 1 - WindowLen
SurfacePad == MinSurfaceCloud + 1 - WindowLen
Windows ==
    {[i \in 1..WindowLen |-> [ring |-> rings[i], x |-> Coord(layout, i), finite |-> TRUE]] :
        rings \in [1..WindowLen -> 0..MaxRing], layout \in Layouts}
\* Reference clouds in ring order, at the feature point, 6 m or 5 m from it.
RingOrderedWindows ==
    {[i \in 1..WindowLen |->
         [ring |-> IF i = 1 THEN 0 ELSE 1, x |-> Coord(layout, i), finite |-> TRUE]] :
        layout \in {"near", "far", "cutoff"}}
\* The second point of the corner cloud with a non-finite coordinate.
WithNaN(win) == [win EXCEPT ![2].finite = FALSE]
NaNCount(win) == Cardinality({j \in 1..Len(win) : ~win[j].finite})
\* The number of feature points of the sweep, and whether the corner
\* reference cloud holds a non-finite point.
SearchCases ==
    {[n |-> 1, nan |-> FALSE], [n |-> 4, nan |-> FALSE], [n |-> 12, nan |-> FALSE],
     [n |-> 4, nan |-> TRUE], [n |-> 12, nan |-> TRUE]}

\* The engine inside performOptimization() of its second process() call, at
\* the top of iteration 0, the incremental transform zero: the reference
\* clouds (11 and 101 points, or 12 with one non-finite corner point) were
\* indexed at the end of the first call.  The first `written` feature points
\* of each kind all lie at the origin, with the same distances and range.
InsideOptimization(windows, cases, edgeDists, planeDists, ranges, written, iterations) ==
    /\ \E win \in windows, case \in cases :
        /\ lastCornerPoints =
               [win |-> IF case.nan THEN WithNaN(win) ELSE win,
                pad |-> IF case.nan THEN CornerPad + 1 ELSE CornerPad]
        /\ lastSurfacePoints = [win |-> win, pad |-> SurfacePad]
        /\ \E ld2 \in edgeDists, pd2 \in planeDists, r \in ranges :
            /\ sharpSel = [win |-> [i \in 1..written |-> [x |-> 0, ld2 |-> ld2]],
                           n |-> case.n]
            /\ flatSel = [win |-> [i \in 1..written |->
                                      [x |-> 0, pd2 |-> pd2, range |-> r]],
                          n |-> case.n]
    /\ cornerTreePoints = lastCornerPoints
    /\ surfTreePoints = lastSurfacePoints
    /\ pointSearchCornerInd1 = <<>> /\ pointSearchCornerInd2 = <<>>
    /\ pointSearchSurfInd1 = <<>> /\ pointSearchSurfInd2 = <<>>
    /\ pointSearchSurfInd3 = <<>>
    /\ coeffSel = <<>> /\ search = NoSearch /\ weighed = NoWeighed
    /\ callCap = 2 /\ scanPeriod = 2 /\ maxIterations = iterations
    /\ systemInited = TRUE /\ frameCount = 1
    /\ transform = ZeroTransform /\ transformSum = ZeroPose /\ imu = ZeroIMU
    /\ cornerPointsSharp = NewCloud("cornerPointsSharp", 2, sharpSel.n, 0)
    /\ cornerPointsLessSharp = NewCloud("cornerPointsLessSharp", 2, 0, 0)
    /\ surfPointsFlat = NewCloud("surfPointsFlat", 2, flatSel.n, 0)
    /\ surfPointsLessFlat = NewCloud("surfPointsLessFlat", 2, 0, 0)
    /\ lastCornerCloud = NewCloud("cornerPointsLessSharp", 1, Size(lastCornerPoints),
                                  NaNCount(lastCornerPoints.win))
    /\ lastSurfaceCloud = NewCloud("surfPointsLessFlat", 1, Size(lastSurfacePoints), 0)
    /\ lastCornerKDTree = setInputCloud(lastCornerCloud)
    /\ lastSurfaceKDTree = setInputCloud(lastSurfaceCloud)
    /\ pointSearchCornerInd = NoCorr /\ pointSearchSurfInd = NoCorr
    /\ laserCloudOri = 0
    /\ iterCount = 0 /\ isDegenerate = FALSE /\ matP = UninitMat
    /\ pc = "loop"
    /\ calls = 2 /\ bootstraps = 1
    /\ entry = [Snapshot EXCEPT !.cornerPointsLessSharp =
                                    NewCloud("cornerPointsLessSharp", 2, 0, 0),
                                !.surfPointsLessFlat =
                                    NewCloud("surfPointsLessFlat", 2, 0, 0)]
    /\ phases = <<"motionPrior", "optimization">>
    /\ opt = [NoOpt EXCEPT !.ran = TRUE, !.entryTf = ZeroTransform]

\* Every reference cloud, one geometry of the feature point, one iteration.
CorrInit == InsideOptimization(Windows, SearchCases, {F(400)}, {F(-400)}, {4}, 1, 1)
\* Ring-ordered reference clouds, every geometry of the feature point, the
\* full iteration cap.
WeightInit ==
    InsideOptimization(RingOrderedWindows, {[n |-> 4, nan |-> FALSE]},
                       Distances, Distances, PointRanges, 1, MaxIterCap)

\* The features past the written ones are far from every reference point:
\* their nearest neighbour is at 5 m or more, they are stored as -1 and the
\* distance loops pass over them.
FarFeature(i, sel) == i >= Len(sel.win)

\* The top of a loop iteration: _laserCloudOri->clear(); _coeffSel->clear();
\* computeCornerDistances(iterCount) is entered.
BeginIteration ==
    /\ pc = "loop" /\ search.fn = "none" /\ iterCount < maxIterations
    /\ coeffSel' = <<>>
    /\ laserCloudOri' = 0
    /\ search' = [fn |-> "computeCorner", i |-> 0]
    /\ opt' = [opt EXCEPT !.started = @ + 1]
    /\ UNCHANGED <<callCap, scanPeriod, maxIterations, systemInited, frameCount, transform,
                   transformSum, imu, cornerPointsSharp, cornerPointsLessSharp,
                   surfPointsFlat, surfPointsLessFlat, lastCornerCloud,
                   lastSurfaceCloud, lastCornerKDTree, lastSurfaceKDTree,
                   pointSearchCornerInd, pointSearchSurfInd, iterCount,
                   isDegenerate, matP, pc, calls, bootstraps, entry, phases>>
    /\ UNCHANGED <<lastCornerPoints, lastSurfacePoints, cornerTreePoints,
                   surfTreePoints, sharpSel, flatSel, pointSearchCornerInd1,
                   pointSearchCornerInd2, pointSearchSurfInd1, pointSearchSurfInd2,
                   pointSearchSurfInd3, weighed>>

\* computeCornerDistances(iterCount): with iterCount % 5 == 0 it enters
\* findCornerCorrespondence(), where the index vectors are resized and the
\* non-finite points of _lastCornerCloud removed in place; otherwise it goes
\* to its loop with the index vectors of the last refresh.
BeginCornerSearch ==
    /\ search.fn = "computeCorner"
    /\ IF RefreshDue(iterCount)
       THEN /\ lastCornerPoints' = removeNaNPoints(lastCornerPoints)
            /\ lastCornerCloud' = removeNaNFromPointCloud(lastCornerCloud)
            /\ pointSearchCornerInd1' = <<>> /\ pointSearchCornerInd2' = <<>>
            /\ search' = [fn |-> "findCorner", i |-> 0]
       ELSE /\ search' = [fn |-> "cornerDistances", i |-> 0]
            /\ UNCHANGED <<lastCornerPoints, lastCornerCloud, pointSearchCornerInd1,
                           pointSearchCornerInd2>>
    /\ UNCHANGED <<callCap, scanPeriod, maxIterations, systemInited, frameCount, transform,
                   transformSum, imu, cornerPointsSharp, cornerPointsLessSharp,
                   surfPointsFlat, surfPointsLessFlat, lastSurfaceCloud,
                   lastCornerKDTree, lastSurfaceKDTree, pointSearchCornerInd,
                   pointSearchSurfInd, laserCloudOri, iterCount, isDegenerate,
                   matP, pc, historyVars>>
    /\ UNCHANGED <<lastSurfacePoints, cornerTreePoints, surfTreePoints, sharpSel,
                   flatSel, pointSearchSurfInd1, pointSearchSurfInd2,
                   pointSearchSurfInd3, coeffSel, weighed>>

\* findCornerCorrespondence(): one pass of its loop over the feature points.
CornerPointSearch ==
    /\ search.fn = "findCorner" /\ search.i < Len(sharpSel.win)
    /\ \E nn \in nearestKSearch(cornerTreePoints, sharpSel.win[search.i + 1].x),
          g \in Garbage :
        LET found == CornerMatch(lastCornerPoints, nn, g,
                                 sharpSel.win[search.i + 1].x, sharpSel.n)
        IN  /\ pointSearchCornerInd1' = Append(pointSearchCornerInd1, found.ind1)
            /\ pointSearchCornerInd2' = Append(pointSearchCornerInd2, found.ind2)
    /\ search' = [search EXCEPT !.i = @ + 1]
    /\ UNCHANGED <<engineVars, historyVars>>
    /\ UNCHANGED <<lastCornerPoints, lastSurfacePoints, cornerTreePoints,
                   surfTreePoints, sharpSel, flatSel, pointSearchSurfInd1,
                   pointSearchSurfInd2, pointSearchSurfInd3, coeffSel, weighed>>

\* findCornerCorrespondence() returns to computeCornerDistances().
EndCornerSearch ==
    /\ search.fn = "findCorner" /\ FarFeature(search.i, sharpSel)
    /\ pointSearchCornerInd' = Correspondence(iterCount, frameCount, transform)
    /\ search' = [fn |-> "cornerDistances", i |-> 0]
    /\ UNCHANGED <<callCap, scanPeriod, maxIterations, systemInited, frameCount, transform,
                   transformSum, imu, cornerPointsSharp, cornerPointsLessSharp,
                   surfPointsFlat, surfPointsLessFlat, lastCornerCloud,
                   lastSurfaceCloud, lastCornerKDTree, lastSurfaceKDTree,
                   pointSearchSurfInd, laserCloudOri, iterCount, isDegenerate,
                   matP, pc, historyVars>>
    /\ UNCHANGED <<lastCornerPoints, lastSurfacePoints, cornerTreePoints,
                   surfTreePoints, sharpSel, flatSel, pointSearchCornerInd1,
                   pointSearchCornerInd2, pointSearchSurfInd1, pointSearchSurfInd2,
                   pointSearchSurfInd3, coeffSel, weighed>>

\* computeCornerDistances(): one pass of its loop over the feature points.
CornerPointDistance ==
    /\ search.fn = "cornerDistances" /\ search.i < Len(sharpSel.win)
    /\ LET i == search.i + 1
           ld2 == sharpSel.win[i].ld2
           s == cornerWeight(iterCount, ld2)
       IN  IF pointSearchCornerInd2[i] < 0
           THEN UNCHANGED <<coeffSel, weighed>>
           ELSE /\ coeffSel' = IF Discarded(s, ld2) THEN coeffSel
                               ELSE Append(coeffSel, [kind |-> "corner", s |-> s, d |-> ld2])
                /\ weighed' = [kind |-> "corner", iter |-> iterCount, d |-> ld2,
                               range |-> 0, s |-> s, kept |-> ~Discarded(s, ld2)]
    /\ search' = [search EXCEPT !.i = @ + 1]
    /\ UNCHANGED <<engineVars, historyVars>>
    /\ UNCHANGED <<lastCornerPoints, lastSurfacePoints, cornerTreePoints,
                   surfTreePoints, sharpSel, flatSel, pointSearchCornerInd1,
                   pointSearchCornerInd2, pointSearchSurfInd1, pointSearchSurfInd2,
                   pointSearchSurfInd3>>

\* computePlaneDistances(iterCount) is entered: with iterCount % 5 == 0 it
\* enters findPlaneCorrespondence(), where the index vectors are resized.
BeginPlaneSearch ==
    /\ search.fn = "cornerDistances" /\ FarFeature(search.i, sharpSel)
    /\ IF RefreshDue(iterCount)
       THEN /\ pointSearchSurfInd1' = <<>> /\ pointSearchSurfInd2' = <<>>
            /\ pointSearchSurfInd3' = <<>>
            /\ search' = [fn |-> "findPlane", i |-> 0]
       ELSE /\ search' = [fn |-> "planeDistances", i |-> 0]
            /\ UNCHANGED <<pointSearchSurfInd1, pointSearchSurfInd2,
                           pointSearchSurfInd3>>
    /\ UNCHANGED <<engineVars, historyVars>>
    /\ UNCHANGED <<lastCornerPoints, lastSurfacePoints, cornerTreePoints,
                   surfTreePoints, sharpSel, flatSel, pointSearchCornerInd1,
                   pointSearchCornerInd2, coeffSel, weighed>>

\* findPlaneCorrespondence(): one pass of its loop over the feature points.
PlanePointSearch ==
    /\ search.fn = "findPlane" /\ search.i < Len(flatSel.win)
    /\ \E nn \in nearestKSearch(surfTreePoints, flatSel.win[search.i + 1].x),
          g \in Garbage :
        LET found == PlaneMatch(lastSurfacePoints, nn, g,
                                flatSel.win[search.i + 1].x, flatSel.n)
        IN  /\ pointSearchSurfInd1' = Append(pointSearchSurfInd1, found.ind1)
            /\ pointSearchSurfInd2' = Append(pointSearchSurfInd2, found.ind2)
            /\ pointSearchSurfInd3' = Append(pointSearchSurfInd3, found.ind3)
    /\ search' = [search EXCEPT !.i = @ + 1]
    /\ UNCHANGED <<engineVars, historyVars>>
    /\ UNCHANGED <<lastCornerPoints, lastSurfacePoints, cornerTreePoints,
                   surfTreePoints, sharpSel, flatSel, pointSearchCornerInd1,
                   pointSearchCornerInd2, coeffSel, weighed>>

\* findPlaneCorrespondence() returns to computePlaneDistances().
EndPlaneSearch ==
    /\ search.fn = "findPlane" /\ FarFeature(search.i, flatSel)
    /\ pointSearchSurfInd' = Correspondence(iterCount, frameCount, transform)
    /\ search' = [fn |-> "planeDistances", i |-> 0]
    /\ UNCHANGED <<callCap, scanPeriod, maxIterations, systemInited, frameCount, transform,
                   transformSum, imu, cornerPointsSharp, cornerPointsLessSharp,
                   surfPointsFlat, surfPointsLessFlat, lastCornerCloud,
                   lastSurfaceCloud, lastCornerKDTree, lastSurfaceKDTree,
                   pointSearchCornerInd, laserCloudOri, iterCount, isDegenerate,
                   matP, pc, historyVars>>
    /\ UNCHANGED <<lastCornerPoints, lastSurfacePoints, cornerTreePoints,
                   surfTreePoints, sharpSel, flatSel, pointSearchCornerInd1,
                   pointSearchCornerInd2, pointSearchSurfInd1, pointSearchSurfInd2,
                   pointSearchSurfInd3, coeffSel, weighed>>

\* computePlaneDistances(): one pass of its loop over the feature points.
PlanePointDistance ==
    /\ search.fn = "planeDistances" /\ search.i < Len(flatSel.win)
    /\ LET i == search.i + 1
           pd2 == flatSel.win[i].pd2
           s == planeWeight(iterCount, pd2, flatSel.win[i])
       IN  IF pointSearchSurfInd2[i] < 0 \/ pointSearchSurfInd3[i] < 0
           THEN UNCHANGED <<coeffSel, weighed>>
           ELSE /\ coeffSel' = IF Discarded(s, pd2) THEN coeffSel
                               ELSE Append(coeffSel, [kind |-> "plane", s |-> s, d |-> pd2])
                /\ weighed' = [kind |-> "plane", iter |-> iterCount, d |-> pd2,
                               range |-> flatSel.win[i].range, s |-> s,
                               kept |-> ~Discarded(s, pd2)]
    /\ search' = [search EXCEPT !.i = @ + 1]
    /\ UNCHANGED <<engineVars, historyVars>>
    /\ UNCHANGED <<lastCornerPoints, lastSurfacePoints, cornerTreePoints,
                   surfTreePoints, sharpSel, flatSel, pointSearchCornerInd1,
                   pointSearchCornerInd2, pointSearchSurfInd1, pointSearchSurfInd2,
                   pointSearchSurfInd3>>

\* computePlaneDistances() returns: pointSelNum = _laserCloudOri->points.size()
EndDistances ==
    /\ search.fn = "planeDistances" /\ FarFeature(search.i, flatSel)
    /\ laserCloudOri' = Len(coeffSel)
    /\ pc' = "rows"
    /\ search' = NoSearch
    /\ UNCHANGED <<callCap, scanPeriod, maxIterations, systemInited, frameCount, transform,
                   transformSum, imu, cornerPointsSharp, cornerPointsLessSharp,
                   surfPointsFlat, surfPointsLessFlat, lastCornerCloud,
                   lastSurfaceCloud, lastCornerKDTree, lastSurfaceKDTree,
                   pointSearchCornerInd, pointSearchSurfInd, iterCount,
                   isDegenerate, matP, historyVars>>
    /\ UNCHANGED <<lastCornerPoints, lastSurfacePoints, cornerTreePoints,
                   surfTreePoints, sharpSel, flatSel, pointSearchCornerInd1,
                   pointSearchCornerInd2, pointSearchSurfInd1, pointSearchSurfInd2,
                   pointSearchSurfInd3, coeffSel, weighed>>

\* One performOptimization() call over a sweep with a single feature point
\* of each kind near the reference clouds: no iteration reaches 10 rows.
PointNext ==
    \/ BeginIteration
    \/ BeginCornerSearch
    \/ CornerPointSearch
    \/ EndCornerSearch
    \/ CornerPointDistance
    \/ BeginPlaneSearch
    \/ PlanePointSearch
    \/ EndPlaneSearch
    \/ PlanePointDistance
    \/ EndDistances
    \/ SkipIteration
    \/ LoopExit

CorrSpec == CorrInit /\ [][PointNext]_vars
WeightSpec == WeightInit /\ [][PointNext]_vars

\* ---------------------------------------------------------------------
\* One performOptimization() call over a sweep that repeats the last one
\* ---------------------------------------------------------------------
\* The written feature points of each kind: together they can fill the 10
\* rows an iteration needs.
IdentityFeatures == 5
\* A reference cloud whose first point is at the feature points, the next
\* ones 1 m apart on the same ring, the last written one on the next ring.
IdentityWindows ==
    {[i \in 1..WindowLen |->
         [ring |-> IF i = WindowLen THEN 1 ELSE 0, x |-> Coord("spread", i),
          finite |-> TRUE]]}
\* The feature points at distance zero from their line and plane, or 2 mm
\* from them.
IdentityInit ==
    InsideOptimization(IdentityWindows, {[n |-> IdentityFeatures, nan |-> FALSE]},
                       {F(0), F(2)}, {F(0), F(2)}, {4}, IdentityFeatures, MaxIterCap)

IdentityNext ==
    \/ PointNext
    \/ SolveAndUpdate

IdentitySpec == IdentityInit /\ [][IdentityNext]_vars

\* ---------------------------------------------------------------------
\* Properties of the sweep-level state machine
\* ---------------------------------------------------------------------

Range(seq) == {seq[i] : i \in 1..Len(seq)}
Components(tf) == <<tf.rot_x, tf.rot_y, tf.rot_z, tf.pos.x, tf.pos.y, tf.pos.z>>
Returned == pc = "idle" /\ calls >= 1

\* C1: the first process() call on a fresh engine runs no optimization and
\* leaves the per-sweep transform as it was; the supplied less-sharp and
\* less-flat clouds become the corner and surface reference clouds; the
\* cumulative pose has zero translation and zero rot_y, rot_x is the IMU
\* start pitch and rot_z the IMU start roll.
C1_FirstSweepBootstraps ==
    (Returned /\ calls = 1) =>
        /\ ~opt.ran /\ "optimization" \notin Range(phases)
        /\ transform = entry.transform /\ transform = ZeroTransform
        /\ lastCornerCloud = entry.cornerPointsLessSharp
        /\ lastSurfaceCloud = entry.surfPointsLessFlat
        /\ transformSum.pos = ZeroVec /\ transformSum.steps = <<>>
        /\ transformSum.rot_y = Zero
        /\ transformSum.rot_x = entry.imu.pitchStart
        /\ transformSum.rot_z = entry.imu.rollStart

C1_BootstrappedWithIMU ==
    /\ Returned /\ calls = 1
    /\ entry.imu.pitchStart = F(3) /\ entry.imu.yawStart = F(1)
    /\ entry.cornerPointsLessSharp.n = 11 /\ entry.surfPointsLessFlat.n = 101

\* C2: the engine is Uninitialized until its first process() call and Steady
\* from then on, whatever that call was given; the bootstrap branch runs in
\* the first call and in no other, every later call is a steady call.
C2_TwoStateMachine ==
    /\ (calls = 0 => ~systemInited /\ bootstraps = 0 /\ frameCount = 0)
    /\ (calls >= 1 => systemInited /\ bootstraps = 1 /\ frameCount = calls - 1)
    /\ (pc # "idle" => entry.systemInited)

C2_SteadyWithEmptyClouds ==
    /\ Returned /\ calls >= 3 /\ frameCount = 2
    /\ lastCornerCloud.n = 0

\* C3: in a steady call the optimization runs exactly when the corner
\* reference cloud has more than 10 points and the surface reference cloud
\* more than 100; when it is skipped, the transform that enters the pose
\* accumulation is the transform of the previous sweep with the motion prior
\* applied: rotation untouched, translation less velocity times scan period.
C3_OptimizationGuard ==
    /\ opt.ran => (entry.lastCornerCloud.n > 10 /\ entry.lastSurfaceCloud.n > 100)
    /\ (pc \notin {"idle", "guard"} \/ (Returned /\ entry.systemInited)) =>
           (opt.ran <=> (entry.lastCornerCloud.n > 10 /\ entry.lastSurfaceCloud.n > 100))
    /\ (pc = "accumulate" /\ ~opt.ran) =>
           /\ transform.rot_x = entry.transform.rot_x
           /\ transform.rot_y = entry.transform.rot_y
           /\ transform.rot_z = entry.transform.rot_z
           /\ transform.pos.x =
                  Sub(entry.transform.pos.x, Mul(entry.imu.veloFromStart.x, F(scanPeriod)))
           /\ transform.pos.y =
                  Sub(entry.transform.pos.y, Mul(entry.imu.veloFromStart.y, F(scanPeriod)))
           /\ transform.pos.z =
                  Sub(entry.transform.pos.z, Mul(entry.imu.veloFromStart.z, F(scanPeriod)))

C3_SkippedAtThreshold ==
    /\ pc = "accumulate" /\ ~opt.ran
    /\ entry.lastCornerCloud.n = 11 /\ entry.lastSurfaceCloud.n = 100
    /\ entry.imu.veloFromStart.x = F(2)
    /\ transform.pos.x = F(-4)

\* C4 as stated: in every call, bootstrap or steady, a nearest-neighbour
\* index is built only when the corner reference cloud has more than 10
\* points and the surface reference cloud more than 100.
C4_IndexOnlyWhenLargeEnough ==
    (Returned /\ "buildIndex" \in Range(phases)) =>
        (lastCornerCloud.n > 10 /\ lastSurfaceCloud.n > 100)

\* C4, amended: a steady call rebuilds the two indices exactly when the new
\* corner reference cloud has more than 10 points and the new surface
\* reference cloud more than 100, and otherwise keeps the stale ones; the
\* bootstrap call builds both indices whatever the sizes.
C4_SteadyRebuildOnlyWhenLargeEnough ==
    Returned =>
        /\ entry.systemInited =>
               /\ "buildIndex" \in Range(phases) <=>
                      (lastCornerCloud.n > 10 /\ lastSurfaceCloud.n > 100)
               /\ "buildIndex" \in Range(phases) =>
                      /\ lastCornerKDTree = [built |-> TRUE, over |-> lastCornerCloud]
                      /\ lastSurfaceKDTree = [built |-> TRUE, over |-> lastSurfaceCloud]
        /\ ~entry.systemInited =>
               /\ "buildIndex" \in Range(phases)
               /\ lastCornerKDTree = [built |-> TRUE, over |-> lastCornerCloud]
               /\ lastSurfaceKDTree = [built |-> TRUE, over |-> lastSurfaceCloud]

C4_StaleIndexKept ==
    /\ Returned /\ entry.systemInited
    /\ lastCornerCloud.n = 10 /\ lastSurfaceCloud.n = 101
    /\ "buildIndex" \notin Range(phases)
    /\ lastCornerKDTree.built /\ lastCornerKDTree.over # lastCornerCloud

\* ---------------------------------------------------------------------
\* Properties of the solver loop
\* ---------------------------------------------------------------------

\* C5: an iteration that retains fewer than 10 rows applies no update and
\* the loop goes on to the next iteration; when every iteration of a
\* performOptimization() call is skipped, the call returns with the
\* transform it was entered with.
C5_SkippedIterationKeepsTransform ==
    /\ (opt.last.k >= 0 /\ opt.last.rows < 10) =>
           ~opt.last.applied /\ transform = opt.last.before
    /\ (opt.last.k >= 0 /\ opt.last.rows >= 10) => opt.last.applied
    /\ (pc = "loop" /\ opt.last.k >= 0 /\ ~opt.last.applied) =>
           iterCount = opt.last.k + 1
    /\ (pc = "accumulate" /\ opt.ran /\ opt.applied = 0) =>
           transform = opt.entryTf /\ opt.started = maxIterations

C5_EveryIterationSkipped ==
    /\ pc = "accumulate" /\ opt.ran /\ opt.applied = 0
    /\ opt.started = maxIterations /\ opt.last.rows = 9
    /\ transform # ZeroTransform

\* C6: after an iteration that applies an update all six components of the
\* transform are finite: a component whose updated value is not finite is
\* zero, every other component holds its updated value.
C6_NonFiniteComponentsReset ==
    opt.last.applied =>
        \A i \in 1..6 :
            LET updated == Add(Components(opt.last.before)[i], XSeq(opt.last.x)[i])
                now == Components(transform)[i]
            IN  /\ IsFinite(now)
                /\ IsFinite(updated) => now = updated
                /\ ~IsFinite(updated) => now = Zero

C6_MixedUpdate ==
    /\ opt.last.applied
    /\ opt.last.x.ry = NaN /\ opt.last.x.tz = PInf /\ opt.last.x.tx = F(1)
    /\ opt.last.before.pos.x # Zero
    /\ transform.rot_y = Zero /\ transform.pos.z = Zero

\* C7: performOptimization() runs at most maxIterations iterations; it stops
\* at the first iteration whose applied increment is finite with rotation and
\* translation magnitudes both under their thresholds, and runs no iteration
\* after it; no other iteration stops the loop early.
C7_LoopBoundedAndStopsOnConvergence ==
    LET x == opt.last.x
        small == /\ \A i \in 1..6 : IsFinite(XSeq(x)[i])
                 /\ x.rx.v * x.rx.v + x.ry.v * x.ry.v + x.rz.v * x.rz.v
                        < deltaRAbort * deltaRAbort
                 /\ x.tx.v * x.tx.v + x.ty.v * x.ty.v + x.tz.v * x.tz.v
                        < deltaTAbort * deltaTAbort
    IN  /\ opt.started <= maxIterations
        /\ iterCount <= maxIterations
        /\ opt.stopped => pc \notin {"loop", "rows"}
        /\ opt.stopped <=> (opt.last.applied /\ small)
        /\ (pc = "accumulate" /\ opt.ran /\ ~opt.stopped) => opt.started = maxIterations

C7_StoppedEarly ==
    /\ pc = "accumulate" /\ opt.stopped
    /\ opt.started = 3 /\ opt.applied = 3
    /\ opt.last.x.rx = F(1) /\ opt.last.x.ty = F(1)

\* C10 as stated: checkDegeneration() runs exactly once in every
\* performOptimization() call, at iteration 0.
C10_DegenerationCheckedExactlyOnce ==
    (pc = "accumulate" /\ opt.ran) => opt.degenAt = <<0>>

\* C10, amended: checkDegeneration() runs at most once in a
\* performOptimization() call, in iteration 0 and only when iteration 0
\* retains at least 10 rows; a call whose iteration 0 is skipped never runs
\* it.  The flag and the projection matrix of that one check are the ones
\* every later updating iteration of the call uses.
C10_DegenerationCheckedAtMostOnce ==
    /\ opt.degenAt \in {<<>>, <<0>>}
    /\ opt.degenAt = <<0>> <=> opt.applied > 0
    /\ (opt.last.applied /\ opt.last.projected) =>
           opt.last.proj = opt.degenP /\ opt.degenP.zeroed # {}
    /\ (opt.last.applied /\ ~opt.last.projected) => opt.degenP.zeroed = {}
    /\ (pc \in {"loop", "rows"} /\ opt.applied > 0) =>
           matP = opt.degenP /\ (isDegenerate <=> opt.degenP.zeroed # {})

C10_ProjectionReused ==
    /\ opt.degenAt = <<0>> /\ opt.applied >= 3
    /\ opt.last.k >= 2 /\ opt.last.projected
    /\ opt.last.proj.zeroed # {}

C10_NeverChecked ==
    /\ pc = "accumulate" /\ opt.ran /\ opt.applied = 0 /\ opt.degenAt = <<>>

\* ---------------------------------------------------------------------
\* Properties of the cumulative pose and of the order of the phases
\* ---------------------------------------------------------------------

\* The steady calls whose pose accumulation has run.
Accumulated ==
    IF pc \in {"guard", "loop", "rows", "accumulate"} THEN frameCount - 1 ELSE frameCount

\* Each steady call folds its final incremental transform into the
\* cumulative pose exactly once, after the optimization has finished.
OncePerSteadyCall ==
    /\ Len(transformSum.steps) = Accumulated
    /\ (Len(transformSum.steps) > 0 /\ Accumulated = frameCount /\ pc # "idle") =>
           transformSum.steps[Len(transformSum.steps)].imu = imu
    /\ (Len(transformSum.steps) > 0 /\ Accumulated = frameCount) =>
           transformSum.steps[Len(transformSum.steps)].tf = transform

\* C12 as stated: the cumulative pose is mutated only by the pose
\* accumulation, once per sweep; performOptimization, the correspondence
\* search, transformToStart, transformToEnd and updateIMU leave it
\* unchanged, and each steady call assigns it exactly once, after the
\* optimization has finished.
C12_MutatedOnlyByPoseAccumulation ==
    /\ [][transformSum' # transformSum => pc = "accumulate"]_vars
    /\ []OncePerSteadyCall

\* C12, amended: the cumulative pose is mutated by the pose accumulation,
\* once per steady call and after the optimization has finished, and by the
\* bootstrap call, which adds the IMU start pitch and roll to its rotation
\* (translation and yaw untouched); no other step of the engine changes it.
C12_MutatedByAccumulationAndSeed ==
    /\ [][transformSum' # transformSum =>
              \/ /\ pc = "accumulate" /\ pc' = "toEndCorner"
                 /\ transformSum'.steps =
                        Append(transformSum.steps, [tf |-> transform, imu |-> imu])
              \/ /\ pc = "idle" /\ ~systemInited /\ systemInited'
                 /\ transformSum'.rot_x = Add(transformSum.rot_x, imu.pitchStart)
                 /\ transformSum'.rot_z = Add(transformSum.rot_z, imu.rollStart)
                 /\ transformSum'.rot_y = transformSum.rot_y
                 /\ transformSum'.pos = transformSum.pos
                 /\ transformSum'.steps = transformSum.steps]_vars
    /\ []OncePerSteadyCall

C12_TwoSweepsAccumulated ==
    /\ Returned /\ calls = 3 /\ Len(transformSum.steps) = 2
    /\ transformSum.rot_x = F(3)
    /\ opt.ran /\ opt.applied = 1
    /\ transformSum.steps[2].tf = transform /\ transform # ZeroTransform
    /\ transformSum.steps[1].tf # transform

\* The phases of a steady call, in order; the optimization and the index
\* rebuild are conditional.
SteadyPhases(ran, built) ==
    <<"motionPrior">> \o (IF ran THEN <<"optimization">> ELSE <<>>)
        \o <<"poseAccumulation", "transformToEnd", "transformToEnd", "swap">>
        \o (IF built THEN <<"buildIndex">> ELSE <<>>)
IsPrefix(p, q) == Len(p) <= Len(q) /\ \A i \in 1..Len(p) : p[i] = q[i]
InSteadyCall == calls >= 1 /\ entry.systemInited
BeforeToEnd == {"guard", "loop", "rows", "accumulate"}
\* What one application of transformToEnd in this call makes of a cloud.
ReprojectedOnce(cloud, now) ==
    /\ [now EXCEPT !.toEnd = cloud.toEnd] = cloud
    /\ now.toEnd = Append(cloud.toEnd, [tf |-> transform, imu |-> entry.imu])

\* C13: the phases of every steady call run in the order motion prior,
\* optimization (if run), pose accumulation, transformToEnd, reference-cloud
\* swap, index rebuild (if due).  transformToEnd is applied once to the
\* less-sharp and once to the less-flat cloud, after the solver loop has
\* ended and with the final incremental transform (the one folded into the
\* cumulative pose), and to no cloud during the correspondence search or a
\* solver iteration.
C13_PhasesInFixedOrder ==
    InSteadyCall =>
        /\ \E ran, built \in BOOLEAN : IsPrefix(phases, SteadyPhases(ran, built))
        /\ Returned => \E built \in BOOLEAN : phases = SteadyPhases(opt.ran, built)
        /\ pc \in BeforeToEnd \cup {"toEndCorner"} =>
               /\ cornerPointsLessSharp = entry.cornerPointsLessSharp
               /\ "transformToEnd" \notin Range(phases)
        /\ pc \in BeforeToEnd \cup {"toEndCorner", "toEndSurf"} =>
               surfPointsLessFlat = entry.surfPointsLessFlat
        /\ pc \in BeforeToEnd =>
               /\ lastSurfaceCloud = entry.lastSurfaceCloud
               /\ lastCornerCloud.toEnd = entry.lastCornerCloud.toEnd
        /\ pc \in {"toEndSurf", "swap"} =>
               ReprojectedOnce(entry.cornerPointsLessSharp, cornerPointsLessSharp)
        /\ pc = "swap" => ReprojectedOnce(entry.surfPointsLessFlat, surfPointsLessFlat)
        /\ (pc = "rebuild" \/ Returned) =>
               /\ ReprojectedOnce(entry.cornerPointsLessSharp, lastCornerCloud)
               /\ ReprojectedOnce(entry.surfPointsLessFlat, lastSurfaceCloud)
        /\ pc \notin BeforeToEnd =>
               /\ transformSum.steps[Len(transformSum.steps)].tf = transform
               /\ opt.ran => opt.started >= 1
               /\ (opt.ran /\ opt.last.applied) =>
                      transform = ResetNonFinite(ApplyIncrement(opt.last.before, opt.last.x))

C13_SteadySweepCompleted ==
    /\ Returned /\ InSteadyCall
    /\ phases = SteadyPhases(TRUE, TRUE)
    /\ opt.started >= 3 /\ opt.applied >= 2
    /\ transform # ZeroTransform
    /\ lastCornerCloud.toEnd = <<[tf |-> transform, imu |-> entry.imu]>>
    /\ lastSurfaceCloud.toEnd = <<[tf |-> transform, imu |-> entry.imu]>>
    /\ entry.imu # ZeroIMU

\* The index sets as the search of iteration k of the current call left them.
WrittenAt(corr, k) == corr.set /\ corr.iter = k /\ corr.frame = frameCount

\* C14: within a performOptimization() call the edge and plane index sets
\* are recomputed in iteration k exactly when k % 5 = 0, whether or not the
\* iteration is then skipped for having fewer than 10 rows; the rows of
\* every other iteration are computed from the index sets of iteration
\* 5 * floor(k / 5), unchanged.
C14_RefreshEveryFifthIteration ==
    /\ pc = "rows" =>
           /\ WrittenAt(pointSearchCornerInd, 5 * (iterCount \div 5))
           /\ WrittenAt(pointSearchSurfInd, 5 * (iterCount \div 5))
           /\ iterCount % 5 = 0 =>
                  pointSearchCornerInd.tf = transform /\ pointSearchSurfInd.tf = transform
    /\ (pc = "loop" /\ opt.last.k >= 0) =>
           /\ WrittenAt(pointSearchCornerInd, 5 * (opt.last.k \div 5))
           /\ WrittenAt(pointSearchSurfInd, 5 * (opt.last.k \div 5))
           /\ opt.last.refreshed <=> opt.last.k % 5 = 0

C14_IndicesReusedAfterUpdates ==
    /\ pc = "rows" /\ iterCount = 4 /\ opt.applied = 4
    /\ pointSearchCornerInd.iter = 0 /\ pointSearchCornerInd.tf # transform
    /\ laserCloudOri = 10

\* C21: the convergence test is evaluated only in iterations that applied an
\* update.  An iteration skipped for having fewer than 10 rows never ends
\* the loop: the loop ends before its cap only right after an applied update
\* that passed the test, and a call in which every iteration is skipped
\* runs exactly maxIterations iterations.
C21_OnlyUpdatesEndTheLoop ==
    /\ opt.stopped => opt.last.applied /\ opt.last.converged
    /\ (opt.last.k >= 0 /\ ~opt.last.applied) =>
           /\ ~opt.last.converged /\ ~opt.stopped
           /\ pc \in {"loop", "rows"} \/ opt.started = maxIterations
    /\ (pc \notin {"loop", "rows", "guard"} /\ opt.ran /\ opt.started < maxIterations) =>
           /\ opt.stopped /\ opt.last.applied
           /\ opt.last.k = opt.started - 1
    /\ (pc \notin {"loop", "rows", "guard"} /\ opt.ran /\ opt.applied = 0) =>
           opt.started = maxIterations /\ ~opt.stopped

\* Iteration 0 updates without converging, iterations 1 to 4 are skipped,
\* iteration 5 updates and ends the loop.
C21_StoppedAfterSkippedIterations ==
    /\ pc = "accumulate" /\ opt.stopped
    /\ opt.started = 6 /\ opt.applied = 2
    /\ opt.last.k = 5 /\ opt.last.applied /\ opt.last.converged

\* C18: checkDegeneration(), given the six eigenvalues in ascending order,
\* zeroes exactly the rows of the maximal leading run of eigenvalues below
\* 10, stops at the first eigenvalue that is 10 or more and touches no later
\* row, and returns true exactly when the smallest eigenvalue is below 10.
C18_LeadingRunZeroed ==
    opt.degenAt # <<>> =>
        LET e == opt.degenE
            zeroed == opt.degenP.zeroed
        IN  /\ Len(e) = 6 /\ \A i \in 1..5 : e[i] <= e[i + 1]
            /\ opt.degenP.set
            /\ zeroed = {i \in 1..6 : \A h \in 1..i : e[h] < 10}
            /\ \A i \in 1..6 : e[i] >= 10 => \A h \in i..6 : h \notin zeroed
            /\ opt.degenFlag <=> e[1] < 10

C18_TwoRowsZeroed ==
    /\ opt.degenAt = <<0>> /\ opt.degenE = <<1, 9, 10, 20, 30, 40>>
    /\ opt.degenP.zeroed = {1, 2} /\ opt.degenFlag
    /\ opt.last.k = 0 /\ opt.last.projected

\* The step is one of the swaps that end a process() call: the two swaps of
\* a steady call, or those of the bootstrap call.
SwapStep == pc = "swap" \/ (pc = "idle" /\ ~systemInited /\ systemInited')

\* C16: the reference clouds are replaced only at sweep boundaries and never
\* mutated in place: the content of the last-corner and last-surface clouds
\* changes only in the swap that ends a process() call, and so stays what it
\* was at the entry of the call throughout performOptimization() and the
\* correspondence search.
C16_ReferenceCloudsOnlySwapped ==
    /\ [][(lastCornerCloud' # lastCornerCloud \/ lastSurfaceCloud' # lastSurfaceCloud)
              => SwapStep]_vars
    /\ [](pc \in {"guard", "loop", "rows", "accumulate"} =>
              /\ lastCornerCloud = entry.lastCornerCloud
              /\ lastSurfaceCloud = entry.lastSurfaceCloud)

\* The index was built over this cloud, as the cloud then was.
BuiltOver(tree, cloud) == tree.built /\ tree.over = cloud

\* C20: whenever performOptimization() is invoked, each of the two indices
\* was built at the end of the preceding process() call over the cloud that
\* is now the corresponding reference cloud; a call that finds an index left
\* over from an older sweep, its rebuild skipped for the size thresholds,
\* does not run the optimization.
C20_OptimizationQueriesFreshIndex ==
    /\ (pc = "loop" /\ opt.ran /\ opt.started = 0) =>
           /\ BuiltOver(lastCornerKDTree, lastCornerCloud)
           /\ BuiltOver(lastSurfaceKDTree, lastSurfaceCloud)
    /\ (opt.ran /\ pc \in {"loop", "rows", "accumulate"}) =>
           /\ BuiltOver(lastCornerKDTree, entry.lastCornerCloud)
           /\ BuiltOver(lastSurfaceKDTree, entry.lastSurfaceCloud)
    /\ (pc = "guard" /\ ~( /\ BuiltOver(lastCornerKDTree, lastCornerCloud)
                          /\ BuiltOver(lastSurfaceKDTree, lastSurfaceCloud))) =>
           ~(lastCornerCloud.n > 10 /\ lastSurfaceCloud.n > 100)

\* The third call enters the optimization over the reference clouds that
\* the second call installed and indexed.
C20_FreshIndexInThirdCall ==
    /\ pc = "loop" /\ opt.ran /\ opt.started = 0 /\ calls = 3
    /\ lastCornerKDTree.over = lastCornerCloud /\ lastCornerCloud.sweep = 2
    /\ lastCornerCloud.n = 12 /\ lastCornerCloud.nan = 1
    /\ Len(lastCornerCloud.toEnd) = 1

\* ---------------------------------------------------------------------
\* Properties of a sweep that repeats the last one
\* ---------------------------------------------------------------------

\* Every written feature point lies on its line and on its plane.
AllDistancesZero ==
    /\ \A i \in 1..Len(sharpSel.win) : sharpSel.win[i].ld2 = Zero
    /\ \A i \in 1..Len(flatSel.win) : flatSel.win[i].pd2 = Zero
WithinAbortThresholds(tf) ==
    /\ Less(SumSq(tf.rot_x, tf.rot_y, tf.rot_z), F(deltaRAbort * deltaRAbort))
    /\ Less(SumSq(tf.pos.x, tf.pos.y, tf.pos.z), F(deltaTAbort * deltaTAbort))

\* C15: when the reprojected sharp and flat points coincide with points of
\* the reference clouds, so that every point-to-edge and point-to-plane
\* distance is zero, and the incremental transform entering the optimization
\* is zero, the incremental transform after performOptimization() is within
\* the abort thresholds of zero (it is zero: no iteration keeps a row).
C15_IdentitySweepKeepsZero ==
    (AllDistancesZero /\ opt.entryTf = ZeroTransform) =>
        /\ WithinAbortThresholds(transform)
        /\ transform = ZeroTransform
        /\ coeffSel = <<>> /\ opt.applied = 0

C15_IdentitySweepDone ==
    /\ AllDistancesZero /\ opt.entryTf = ZeroTransform
    /\ pc = "accumulate" /\ opt.started = maxIterations
    /\ \A i \in 1..IdentityFeatures :
           /\ pointSearchCornerInd1[i] = 0 /\ pointSearchCornerInd2[i] >= 0
           /\ pointSearchSurfInd1[i] = 0 /\ pointSearchSurfInd2[i] >= 0
           /\ pointSearchSurfInd3[i] >= 0
    /\ weighed.kind = "plane" /\ weighed.s = F(10000) /\ ~weighed.kept

\* ---------------------------------------------------------------------
\* Properties of the correspondence search
\* ---------------------------------------------------------------------

InBounds(cloud, j) == 0 <= j /\ j < Size(cloud)
RingOf(cloud, j) == PointAt(cloud, j, PadPoint(cloud)).ring
RingGapTwice(cloud, a, b) ==
    IF RingOf(cloud, a) >= RingOf(cloud, b)
    THEN 2 * (RingOf(cloud, a) - RingOf(cloud, b))
    ELSE 2 * (RingOf(cloud, b) - RingOf(cloud, a))

EdgePairsInWindow ==
    \A i \in 1..Len(pointSearchCornerInd2) :
        LET j == pointSearchCornerInd1[i]
            l == pointSearchCornerInd2[i]
        IN  (InBounds(lastCornerPoints, j) /\ InBounds(lastCornerPoints, l)) =>
                /\ RingGapTwice(lastCornerPoints, j, l) <= 5
                /\ RingOf(lastCornerPoints, j) # RingOf(lastCornerPoints, l)

PlaneTriplesInWindow ==
    \A i \in 1..Len(pointSearchSurfInd3) :
        LET j == pointSearchSurfInd1[i]
            l == pointSearchSurfInd2[i]
            m == pointSearchSurfInd3[i]
        IN  (/\ InBounds(lastSurfacePoints, j) /\ InBounds(lastSurfacePoints, l)
             /\ InBounds(lastSurfacePoints, m)) =>
                /\ RingGapTwice(lastSurfacePoints, j, l) <= 5
                /\ RingGapTwice(lastSurfacePoints, j, m) <= 5

\* C8: whatever the order of the points and ring ids of the reference cloud,
\* every accepted correspondence (all its stored indices non-negative) uses
\* reference points whose ring ids are within 2.5 rings of the ring of the
\* nearest-neighbour match, and the two points of an accepted edge pair are
\* never on the same ring.
C8_RingWindowEnforced == EdgePairsInWindow /\ PlaneTriplesInWindow

\* C17: in every accepted plane correspondence (j, l, m) the second point l
\* is on the ring of the nearest-neighbour match j, and the third point m on
\* another ring, within 2.5 rings of j, whatever the order of the ring ids
\* in the reference cloud.
C17_SecondOnSameRingThirdOnAnother ==
    \A i \in 1..Len(pointSearchSurfInd3) :
        LET j == pointSearchSurfInd1[i]
            l == pointSearchSurfInd2[i]
            m == pointSearchSurfInd3[i]
        IN  (/\ InBounds(lastSurfacePoints, j) /\ InBounds(lastSurfacePoints, l)
             /\ InBounds(lastSurfacePoints, m)) =>
                /\ RingOf(lastSurfacePoints, l) = RingOf(lastSurfacePoints, j)
                /\ RingOf(lastSurfacePoints, m) # RingOf(lastSurfacePoints, j)
                /\ RingGapTwice(lastSurfacePoints, j, m) <= 5

\* The forward loop starts at closestPointInd + 1 and reads that point
\* whenever it is below its bound, the number of feature points.
FirstForwardRead(j, featureNum) == IF j + 1 < featureNum THEN {j + 1} ELSE {}

\* C19: every index into a reference cloud that the forward and backward
\* ring search reads, and every non-negative index it stores in the
\* correspondence index sets, is within the reference cloud, whatever the
\* sizes of the feature cloud and of the reference cloud.
C19_IndicesWithinReferenceCloud ==
    /\ \A i \in 1..Len(pointSearchCornerInd2) :
           pointSearchCornerInd1[i] >= 0 =>
               /\ InBounds(lastCornerPoints, pointSearchCornerInd1[i])
               /\ pointSearchCornerInd2[i] >= 0 =>
                      InBounds(lastCornerPoints, pointSearchCornerInd2[i])
               /\ \A j \in FirstForwardRead(pointSearchCornerInd1[i], sharpSel.n) :
                      InBounds(lastCornerPoints, j)
    /\ \A i \in 1..Len(pointSearchSurfInd3) :
           pointSearchSurfInd1[i] >= 0 =>
               /\ InBounds(lastSurfacePoints, pointSearchSurfInd1[i])
               /\ pointSearchSurfInd2[i] >= 0 =>
                      InBounds(lastSurfacePoints, pointSearchSurfInd2[i])
               /\ pointSearchSurfInd3[i] >= 0 =>
                      InBounds(lastSurfacePoints, pointSearchSurfInd3[i])
               /\ \A j \in FirstForwardRead(pointSearchSurfInd1[i], flatSel.n) :
                      InBounds(lastSurfacePoints, j)

\* ---------------------------------------------------------------------
\* Properties of the distances and weights
\* ---------------------------------------------------------------------

Magnitude(d) == IF d.v < 0 THEN -d.v ELSE d.v
RowOfKind(kind) == \E r \in 1..Len(coeffSel) : coeffSel[r].kind = kind

NearestSqDis(tree, sel) == (CHOOSE nn \in nearestKSearch(tree, sel) : TRUE).sqDis

\* C11: a feature point whose nearest reference neighbour is at squared
\* distance 25 or more has all its correspondence indices (2 for an edge, 3
\* for a plane) set to -1; a point whose second (edge) or second or third
\* (plane) index is -1 has no row in the coefficient buffer of any iteration
\* that uses those indices, and the loop over the points goes on.
C11_SentinelExcludesPoint ==
    /\ \A i \in 1..Len(pointSearchCornerInd2) :
           NearestSqDis(cornerTreePoints, sharpSel.win[i].x) >= 25 =>
               pointSearchCornerInd1[i] = -1 /\ pointSearchCornerInd2[i] = -1
    /\ \A i \in 1..Len(pointSearchSurfInd3) :
           NearestSqDis(surfTreePoints, flatSel.win[i].x) >= 25 =>
               /\ pointSearchSurfInd1[i] = -1 /\ pointSearchSurfInd2[i] = -1
               /\ pointSearchSurfInd3[i] = -1
    /\ (Len(pointSearchCornerInd2) >= 1 /\ pointSearchCornerInd2[1] < 0) =>
           ~RowOfKind("corner")
    /\ (/\ Len(pointSearchSurfInd3) >= 1
        /\ (pointSearchSurfInd2[1] < 0 \/ pointSearchSurfInd3[1] < 0)) =>
           ~RowOfKind("plane")
    /\ (search.fn = "planeDistances" /\ search.i = 1) =>
           \A r \in 1..Len(coeffSel) :
               coeffSel[r].kind = "corner" => pointSearchCornerInd2[1] >= 0

\* A plane point and an edge point 5 m from their nearest neighbours, passed
\* over by an iteration that reuses the indices of iteration 0.
C11_RejectedAtFiveMetres ==
    /\ search.fn = "planeDistances" /\ search.i = 1 /\ iterCount = 1
    /\ NearestSqDis(surfTreePoints, flatSel.win[1].x) = 25
    /\ pointSearchSurfInd1 = <<-1>> /\ pointSearchSurfInd2 = <<-1>>
    /\ pointSearchSurfInd3 = <<-1>>
    /\ pointSearchCornerInd1 = <<-1>> /\ pointSearchCornerInd2 = <<-1>>
    /\ coeffSel = <<>>

====
